---- MODULE Spec2Model ----
(***************************************************************************)
(* Layered filesystem build (build_fs.py) and its size-budget ledger       *)
(* (FileSizeRecords in copytarget.py, FSLeasedSpace in build_fs.py).       *)
(*                                                                         *)
(* Conventions of the model                                                *)
(*  - a path is the sequence of its '/'-separated components ("/a/./f" is  *)
(*    <<"a", ".", "f">>; a trailing "" component is a trailing slash);     *)
(*  - a limit value of the policy file is the sequence of its characters;  *)
(*  - the string "unknown" stored in the limit fields is the number        *)
(*    Unknown; an optional key of a YAML mapping is a has... flag;         *)
(*  - an OrderedDict is a function plus the sequence of its keys in        *)
(*    insertion order (modules/order).                                     *)
(***************************************************************************)
EXTENDS Integers, Sequences, FiniteSets, TLC

VARIABLES
    disk,       \* output folder: ledger file name -> [exists, data]
    cpt,        \* the running content-placement process (copytarget.py main)
    cptLast,    \* the last thing that process did (history)
    cfg,        \* options, environment and the chain of layer configs
    ls,         \* per layer: its FSLeasedSpace object (leased_space)
    rootfs,     \* packages installed in the tree being built, in order
    pc,         \* where the orchestrator (build_fs.py __main__) stands
    resets,     \* history: layers whose pre_build zeroed their ledger
    checks,     \* history: layer -> runs of check_target_size_manifest
    lastCheck,  \* history: the last run of check_target_size_manifest
    attr,       \* one run of the package attribution, call by call
    log,        \* history: the phases begun and ended, in order
    manifest,   \* per layer: its frozen manifest <Output>.MANIFEST.json
    tree,       \* directories made, and the manifest directory of the tree
    declaredPkgs, \* per layer: the DebianPackages of its config
    calc        \* a part studied on its own: [op, in, out]

vars == <<disk, cpt, cptLast, cfg, ls, rootfs, pc, resets, checks, lastCheck,
          attr, log, manifest, tree, declaredPkgs, calc>>

orchestratorVars == <<cfg, ls, rootfs, pc, resets, checks, lastCheck, log,
                      manifest, tree, declaredPkgs>>

----------------------------------------------------------------------------
(* Bounds of the model *)

MaxFileSize == 2
MaxCptOps == 2
MaxLayers == 2
MaxDu == 3
MaxPkgs == 4

----------------------------------------------------------------------------
(* Generic helpers *)

EmptyMap == [x \in {} |-> 0]

Put(f, k, v) == [x \in (DOMAIN f) \cup {k} |-> IF x = k THEN v ELSE f[x]]

Del(f, k) == [x \in (DOMAIN f) \ {k} |-> f[x]]

RECURSIVE SumOver(_, _)
SumOver(f, S) ==
    IF S = {} THEN 0
    ELSE LET k == CHOOSE x \in S : TRUE IN f[k] + SumOver(f, S \ {k})

SumMap(f) == SumOver(f, DOMAIN f)

Range(s) == {s[i] : i \in 1..Len(s)}

----------------------------------------------------------------------------
(* copytarget.py: CopyTarget.normpath and str.lower on the inputs of the   *)
(* model                                                                   *)

RECURSIVE normComponents(_, _)
normComponents(path, acc) ==
    IF path = <<>> THEN acc
    ELSE LET c == Head(path) IN
         IF c = "" \/ c = "." THEN normComponents(Tail(path), acc)
         ELSE IF c = ".."
              THEN normComponents(Tail(path),
                                  IF acc = <<>> THEN acc
                                  ELSE SubSeq(acc, 1, Len(acc) - 1))
              ELSE normComponents(Tail(path), Append(acc, c))

\* os.path.normpath, then '//' -> '/', then the trailing slash put back
normpath(path) ==
    LET n == normComponents(path, <<>>) IN
    IF path # <<>> /\ path[Len(path)] = "" /\ n # <<>>
    THEN Append(n, "")
    ELSE n

lower(module) ==
    CASE module = "ModX" -> "modx"
      [] module = "ModY" -> "mody"
      [] OTHER -> module

----------------------------------------------------------------------------
(* copytarget.py: class FileSizeRecords *)

Unknown == -1

NewModule ==
    [moduleSize |-> 0, moduleSizeLimit |-> Unknown, numberOfFiles |-> 0,
     hasDebians |-> FALSE, numberOfDebians |-> 0,
     files |-> EmptyMap, debians |-> EmptyMap]

NewLedger ==
    [totalFSSize |-> 0, totalFSSizeLimit |-> Unknown,
     totalNumberOfFiles |-> 0,
     hasTotalDebians |-> FALSE, totalNumberOfDebians |-> 0,
     order |-> <<>>, modules |-> EmptyMap]

NoFile == [exists |-> FALSE, data |-> NewLedger]

\* fileRecordsDict as rebuilt by the loop of readTargetSizeManifest: modules
\* are visited in their order in the file, a later module overwrites
fileRecordsOf(d) ==
    LET owners(p) == {i \in 1..Len(d.order) :
                         p \in DOMAIN d.modules[d.order[i]].files}
        last(p) == CHOOSE i \in owners(p) : \A j \in owners(p) : j <= i
        recorded == UNION {DOMAIN d.modules[m].files : m \in DOMAIN d.modules}
    IN [p \in recorded |->
           [module |-> d.order[last(p)],
            size |-> d.modules[d.order[last(p)]].files[p]]]

\* readTargetSizeManifest; a missing or empty file gives the zero ledger
readTargetSizeManifest(name, file) ==
    LET d == IF file.exists THEN file.data ELSE NewLedger IN
    [targetSizeFile |-> name, fileSizeDict |-> d,
     fileRecordsDict |-> fileRecordsOf(d), crashed |-> FALSE]

\* FileSizeRecords(None): every method returns at once
NoTarget == <<"None", 0>>

NoRecords ==
    [targetSizeFile |-> NoTarget, fileSizeDict |-> NewLedger,
     fileRecordsDict |-> EmptyMap, crashed |-> FALSE]

withModule(d, module) ==
    IF module \in DOMAIN d.modules THEN d
    ELSE [d EXCEPT !.modules = Put(d.modules, module, NewModule),
                   !.order = Append(d.order, module)]

\* a removeFile that looks the destination up in fileRecordsDict and takes
\* it out of the module found there, whatever module is passed
removeFileOfAnyModule(r, destination, module) ==
    LET p == normpath(destination)
        d == r.fileSizeDict
    IN IF r.targetSizeFile = NoTarget \/ p \notin DOMAIN r.fileRecordsDict
       THEN r
       ELSE LET m == r.fileRecordsDict[p].module
                size == d.modules[m].files[p]
            IN [r EXCEPT
                  !.fileRecordsDict = Del(@, p),
                  !.fileSizeDict =
                      [d EXCEPT
                         !.totalFSSize = @ - size,
                         !.totalNumberOfFiles = @ - 1,
                         !.modules[m] =
                             [@ EXCEPT !.files = Del(@, p),
                                       !.moduleSize = @ - size,
                                       !.numberOfFiles = @ - 1]]]

\* removeFile: a KeyError (module or destination not recorded under that
\* module) leaves everything as it is
removeFile(r, destination, module) ==
    LET m == lower(module)
        p == normpath(destination)
        d == r.fileSizeDict
    IN IF r.targetSizeFile = NoTarget THEN r
       ELSE IF m \notin DOMAIN d.modules THEN r
       ELSE IF p \notin DOMAIN d.modules[m].files THEN r
       ELSE IF p \notin DOMAIN r.fileRecordsDict
            \* files.pop succeeded, fileRecordsDict.pop raised KeyError
            THEN [r EXCEPT !.fileSizeDict.modules[m].files = Del(@, p)]
       ELSE LET size == d.modules[m].files[p] IN
            [r EXCEPT
               !.fileRecordsDict = Del(@, p),
               !.fileSizeDict =
                   [d EXCEPT
                      !.totalFSSize = @ - size,
                      !.totalNumberOfFiles = @ - 1,
                      !.modules[m] =
                          [@ EXCEPT !.files = Del(@, p),
                                    !.moduleSize = @ - size,
                                    !.numberOfFiles = @ - 1]]]

\* the body of addFile after the module entry exists and the size is known
recordFile(r, p, m, size) ==
    [r EXCEPT
       !.fileRecordsDict = Put(@, p, [module |-> m, size |-> size]),
       !.fileSizeDict =
           [@ EXCEPT
              !.totalFSSize = @ + size,
              !.totalNumberOfFiles = @ + 1,
              !.modules[m] =
                  [@ EXCEPT !.files = Put(@, p, size),
                            !.moduleSize = @ + size,
                            !.numberOfFiles = @ + 1]]]

\* addFile without lines 1085-1089: the earlier record is not taken out
addFileAccumulate(r, destination, module, size) ==
    LET m == lower(module)
        p == normpath(destination)
    IN IF r.targetSizeFile = NoTarget THEN r
       ELSE recordFile([r EXCEPT !.fileSizeDict = withModule(@, m)],
                       p, m, size)

\* addFile with the size already taken (size argument or lstat of source)
addFile(r, destination, module, size) ==
    LET m == lower(module)
        p == normpath(destination)
        r1 == [r EXCEPT !.fileSizeDict = withModule(@, m)]
        r2 == IF p \in DOMAIN r1.fileRecordsDict
              THEN removeFile(r1, p, r1.fileRecordsDict[p].module)
              ELSE r1
    IN IF r.targetSizeFile = NoTarget THEN r
       ELSE recordFile(r2, p, m, size)

\* writeTargetSizeManifest: the file now holds the dictionary
writeTargetSizeManifest(r, file) ==
    IF r.targetSizeFile = NoTarget THEN file
    ELSE [exists |-> TRUE, data |-> r.fileSizeDict]

\* FileSizeRecords.__init__
FileSizeRecords(name, dsk) ==
    IF name = NoTarget THEN NoRecords
    ELSE readTargetSizeManifest(name, dsk[name])

----------------------------------------------------------------------------
(* build_fs.py: class FSLeasedSpace, package recording.  A package name    *)
(* and a Depends field are sequences of characters.                        *)

KiB == 1024

\* re.sub(r"\s+", "", depends)
stripSpace(s) == SelectSeq(s, LAMBDA c : c # " ")

\* re.sub(r"\|", ",", depends)
\* the Depends text with the "|" of its alternatives left in place
keepBars(s) == s

barToComma(s) == [i \in 1..Len(s) |-> IF s[i] = "|" THEN "," ELSE s[i]]

\* re.sub(r"\([^()]*\)", "", depends): one left-to-right pass that drops
\* every "(" ... ")" with no parenthesis in between
RECURSIVE dropBrackets(_)
dropBrackets(s) ==
    IF s = <<>> THEN <<>>
    ELSE IF Head(s) # "(" THEN <<Head(s)>> \o dropBrackets(Tail(s))
    ELSE LET stops == {j \in 2..Len(s) : s[j] = "(" \/ s[j] = ")"} IN
         IF stops = {} THEN <<Head(s)>> \o dropBrackets(Tail(s))
         ELSE LET j == CHOOSE k \in stops : \A l \in stops : k <= l IN
              IF s[j] = ")" THEN dropBrackets(SubSeq(s, j + 1, Len(s)))
              ELSE <<Head(s)>> \o dropBrackets(Tail(s))

\* str.split(","): always at least one (possibly empty) name
RECURSIVE splitComma(_, _)
splitComma(s, cur) ==
    IF s = <<>> THEN <<cur>>
    ELSE IF Head(s) = "," THEN <<cur>> \o splitComma(Tail(s), <<>>)
    ELSE splitComma(Tail(s), Append(cur, Head(s)))

\* the three re.sub calls and the split, each on the value of the one before
parseDepends(depends) ==
    CHOOSE names \in
       {splitComma(d, <<>>) :
          d \in {dropBrackets(c) :
                   c \in {barToComma(t) : t \in {stripSpace(depends)}}}} :
       TRUE

\* updateDependsModule; dm is debian_module (name -> module), mf the package
\* manifest.  dependsLoop is its for loop over the names from position i on.
RECURSIVE updateDependsModule(_, _, _)
RECURSIVE dependsLoop(_, _, _, _, _)
dependsLoop(names, i, debian, dm, mf) ==
    IF i > Len(names) THEN dm
    ELSE IF names[i] \in DOMAIN dm
         THEN dependsLoop(names, i + 1, debian, dm, mf)
         ELSE dependsLoop(names, i + 1, debian,
                          updateDependsModule(names[i],
                                              Put(dm, names[i], dm[debian]),
                                              mf),
                          mf)

updateDependsModule(debian, dm, mf) ==
    IF debian \notin DOMAIN mf.installed_packages
    THEN Put(dm, debian, "unknown")
    ELSE IF ~mf.installed_packages[debian].hasDepends THEN dm
    ELSE dependsLoop(parseDepends(mf.installed_packages[debian].depends),
                     1, debian, dm, mf)

\* the first loop of processDebianPackageManifest, over a copy of the keys
RECURSIVE ownersLoop(_, _, _, _)
ownersLoop(keys, i, dm, mf) ==
    IF i > Len(keys) THEN dm
    ELSE ownersLoop(keys, i + 1, updateDependsModule(keys[i], dm, mf), mf)

withDebianModule(d, module) ==
    IF module \in DOMAIN d.modules THEN d
    ELSE [d EXCEPT !.modules = Put(d.modules, module,
                                   [NewModule EXCEPT !.hasDebians = TRUE]),
                   !.order = Append(d.order, module)]

\* what a package adds: Installed-Size in KiB, or the bytes of its files
\* when dpkg-query reports no size
debianSize(pkg) == IF pkg.hasSize THEN pkg.size * KiB ELSE pkg.fileBytes

\* addDebianPackage on the records r (r.crashed: the KeyError raised by
\* modules[module]["debians"] on a module entry that has no such key)
addDebianPackage(r, debian, module, pkg) ==
    LET d == withDebianModule(r.fileSizeDict, module)
        size == debianSize(pkg)
    IN IF ~d.modules[module].hasDebians
       THEN [r EXCEPT
               !.crashed = TRUE,
               !.fileSizeDict =
                  [d EXCEPT
                     !.totalFSSize = @ + size,
                     !.hasTotalDebians = TRUE,
                     !.totalNumberOfDebians = @ + 1,
                     !.modules[module] =
                         [@ EXCEPT !.moduleSize = @ + size,
                                   !.numberOfDebians = @ + 1]]]
       ELSE [r EXCEPT
               !.fileSizeDict =
                  [d EXCEPT
                     !.totalFSSize = @ + size,
                     !.hasTotalDebians = TRUE,
                     !.totalNumberOfDebians = @ + 1,
                     !.modules[module] =
                         [@ EXCEPT !.moduleSize = @ + size,
                                   !.numberOfDebians = @ + 1,
                                   !.debians = Put(@, debian, size)]]]

\* a second loop that passes over no package
skipsNoPackage(uses_base, package, mf) == FALSE

\* "Ignore packages that were already installed in the base FS"
skipsPackage(uses_base, package, mf) ==
    uses_base /\ package \in mf.base_packages

\* the second loop of processDebianPackageManifest, from position i on
RECURSIVE packagesLoop(_, _, _, _, _)
packagesLoop(i, r, dm, mf, uses_base) ==
    IF i > Len(mf.order) \/ r.crashed THEN r
    ELSE LET package == mf.order[i] IN
         IF skipsPackage(uses_base, package, mf)
         THEN packagesLoop(i + 1, r, dm, mf, uses_base)
         ELSE LET module == IF package \in DOMAIN dm THEN dm[package]
                            ELSE "unknown"
              IN packagesLoop(i + 1,
                              addDebianPackage(r, package, module,
                                               mf.installed_packages[package]),
                              dm, mf, uses_base)

\* processDebianPackageManifest up to (not including) the final write;
\* declared is the layer's DebianPackages: its keys in order and its map
processDebianPackageManifest(r, declared, mf, uses_base) ==
    LET dm == ownersLoop(declared.order, 1, declared.module, mf) IN
    packagesLoop(1, [r EXCEPT !.crashed = FALSE], dm, mf, uses_base)

----------------------------------------------------------------------------
(* build_fs.py: FSLeasedSpace.getIntValue / raise_issue /                  *)
(* check_target_size_manifest.  A value of the limits file is the sequence *)
(* of its characters (yaml BaseLoader keeps every scalar a string).        *)

Digits == {"0", "1", "2", "3", "4", "5", "6", "7", "8", "9"}

digitValue(c) ==
    CASE c = "0" -> 0 [] c = "1" -> 1 [] c = "2" -> 2 [] c = "3" -> 3
      [] c = "4" -> 4 [] c = "5" -> 5 [] c = "6" -> 6 [] c = "7" -> 7
      [] c = "8" -> 8 [] c = "9" -> 9

endswith(s, suffix) ==
    /\ Len(s) >= Len(suffix)
    /\ SubSeq(s, Len(s) - Len(suffix) + 1, Len(s)) = suffix

startswith(s, prefix) ==
    /\ Len(s) >= Len(prefix)
    /\ SubSeq(s, 1, Len(prefix)) = prefix

acceptable_units == {<<"b", "y", "t", "e", "s">>, <<"b", "y", "t", "e">>, <<"B">>}

\* int(re.findall('[0-9]+', value)[0]): the first run of digits
RECURSIVE digitRun(_, _)
digitRun(s, acc) ==
    IF s = <<>> \/ Head(s) \notin Digits THEN acc
    ELSE digitRun(Tail(s), 10 * acc + digitValue(Head(s)))

RECURSIVE firstNumber(_)
firstNumber(s) ==
    IF Head(s) \in Digits THEN digitRun(s, 0) ELSE firstNumber(Tail(s))

\* getIntValue: "exit" is raise_error_and_exit (no unit), "crash" the
\* IndexError of [0] when the value holds no digit
getIntValue(value) ==
    IF \A u \in acceptable_units : ~endswith(value, u)
    THEN [status |-> "exit", value |-> 0]
    ELSE IF \A k \in 1..Len(value) : value[k] \notin Digits
    THEN [status |-> "crash", value |-> 0]
    ELSE [status |-> "ok", value |-> firstNumber(value)]

\* the comparison with ">=" in place of ">"
exceedsOrEqual(size, limit) == size >= limit

\* the comparisons "size > limit" of check_target_size_manifest

exceeds(size, limit) == size > limit

\* the two-level lookup: exact filesystem name, else "others"
limitLookup(entry, filesystem) ==
    IF entry.isDict
    THEN IF filesystem \in DOMAIN entry.byLayer
         THEN [found |-> TRUE, value |-> entry.byLayer[filesystem]]
         ELSE IF "others" \in DOMAIN entry.byLayer
              THEN [found |-> TRUE, value |-> entry.byLayer["others"]]
              ELSE [found |-> FALSE, value |-> <<>>]
    ELSE [found |-> TRUE, value |-> entry.scalar]

\* raise_issue without its warning branch
raise_issueAlwaysExit(errorOnLimits) == "exit"

\* raise_issue: with NV_ERROR_ON_FS_SIZE_LIMITS = 'false' a warning and the
\* caller goes on, else raise_error_and_exit

raise_issue(errorOnLimits) == IF errorOnLimits THEN "exit" ELSE "warned"

\* st is the state of one run of check_target_size_manifest:
\*   d        file_size_dict
\*   events   what the run evaluated and reported, in order
\*   outcome  "running", or how it ended: "written", "returned" (a return
\*            before the write), "exit" (raise_error_and_exit), "crash"
issue(st, event, errorOnLimits, thenReturn) ==
    LET how == raise_issue(errorOnLimits) IN
    [st EXCEPT !.events = Append(@, event),
               !.outcome = IF how = "exit" THEN "exit"
                           ELSE IF thenReturn THEN "returned" ELSE @]

\* one pass of the loop over file_size_dict["modules"], from position i on
RECURSIVE modulesLoop(_, _, _, _, _, _)
modulesLoop(i, st, policy, filesystem, uses_base, errorOnLimits) ==
    IF i > Len(st.d.order) \/ st.outcome # "running" THEN st
    ELSE
    LET module == st.d.order[i]
        module_size == st.d.modules[module].moduleSize
        next(s) == modulesLoop(i + 1, s, policy, filesystem, uses_base,
                               errorOnLimits)
    IN
    IF module \notin DOMAIN policy.modules
    THEN issue(st, [kind |-> "policy", what |-> "module_not_defined",
                    module |-> module], errorOnLimits, TRUE)
    ELSE
    LET found == limitLookup(policy.modules[module], filesystem) IN
    IF ~found.found
    THEN issue(st, [kind |-> "policy", what |-> "module_layer_not_defined",
                    module |-> module], errorOnLimits, TRUE)
    ELSE IF uses_base /\ ~startswith(found.value, <<"+">>)
    THEN issue(st, [kind |-> "policy", what |-> "absolute_module_limit",
                    module |-> module], errorOnLimits, TRUE)
    ELSE
    LET max_module_size == getIntValue(found.value) IN
    IF max_module_size.status # "ok"
    THEN [st EXCEPT !.events = Append(@, [kind |-> "policy",
                                          what |-> "bad_value",
                                          module |-> module]),
                    !.outcome = max_module_size.status]
    ELSE
    LET st1 == [st EXCEPT !.d.modules[module].moduleSizeLimit =
                              max_module_size.value]
    IN IF exceeds(module_size, max_module_size.value)
       THEN next(issue(st1, [kind |-> "exceeded", what |-> "module",
                             module |-> module], errorOnLimits, FALSE))
       ELSE next([st1 EXCEPT !.events =
                     Append(@, [kind |-> "under", what |-> "module",
                                module |-> module])])

\* check_target_size_manifest with a limits file: r are the records read
\* from the ledger file, du the measured size of the tree (used unless the
\* tree is "/": atRoot)
checkLedger(r, policy, filesystem, uses_base, errorOnLimits, atRoot, du) ==
    LET d0 == IF atRoot THEN r.fileSizeDict
              ELSE [r.fileSizeDict EXCEPT !.totalFSSize = du]
        st0 == [d |-> d0, events |-> <<>>, outcome |-> "running"]
        total == [kind |-> "", what |-> "total", module |-> ""]
    IN
    IF ~policy.hasMaxFSSize
    THEN issue(st0, [kind |-> "policy", what |-> "maxFSSize_not_defined",
                     module |-> ""], errorOnLimits, TRUE)
    ELSE
    LET found == limitLookup(policy.maxFSSize, filesystem) IN
    IF ~found.found
    THEN issue(st0, [kind |-> "policy", what |-> "layer_not_defined",
                     module |-> ""], errorOnLimits, TRUE)
    ELSE
    LET max_FS_size == getIntValue(found.value) IN
    IF max_FS_size.status # "ok"
    THEN [st0 EXCEPT !.events = <<[kind |-> "policy", what |-> "bad_value",
                                   module |-> ""]>>,
                     !.outcome = max_FS_size.status]
    ELSE
    LET st1 == [st0 EXCEPT !.d.totalFSSizeLimit = max_FS_size.value]
        st2 == IF exceeds(st1.d.totalFSSize, max_FS_size.value)
               THEN issue(st1, [total EXCEPT !.kind = "exceeded"],
                          errorOnLimits, FALSE)
               ELSE [st1 EXCEPT !.events =
                        Append(@, [total EXCEPT !.kind = "under"])]
    IN
    IF st2.outcome # "running" THEN st2
    ELSE IF ~policy.hasModules
    THEN issue(st2, [kind |-> "policy", what |-> "modules_not_defined",
                     module |-> ""], errorOnLimits, TRUE)
    ELSE
    LET st3 == modulesLoop(1, st2, policy, filesystem, uses_base,
                           errorOnLimits)
    IN IF st3.outcome = "running" THEN [st3 EXCEPT !.outcome = "written"]
       ELSE st3

----------------------------------------------------------------------------
(* build_fs.py: the chain of layer configs.  Layer 1 is the leaf (the      *)
(* config given on the command line), layer L + 1 is the Base config of    *)
(* layer L, and layer cfg.n is the root, whose Base is an image or tarball *)
(* (cfg.rootBase) or absent.                                               *)

Layers == 1..MaxLayers

output_name(L) ==
    CASE L = 1 -> "rfs1" [] L = 2 -> "rfs2" [] L = 3 -> "rfs3"
      [] OTHER -> "rfs4"

fs_size_file(L) == <<"fs_size", L>>
fs_layer_size_file(L) == <<"fs_layer_size", L>>

LedgerFiles == {fs_size_file(L) : L \in Layers}
                  \cup {fs_layer_size_file(L) : L \in Layers}

\* a value of the limits file
Scalar(v) == [isDict |-> FALSE, scalar |-> v, byLayer |-> EmptyMap]
ByLayer(f) == [isDict |-> TRUE, scalar |-> <<>>, byLayer |-> f]

NoPolicy ==
    [hasMaxFSSize |-> FALSE, maxFSSize |-> Scalar(<<>>),
     hasModules |-> FALSE, modules |-> EmptyMap]

\* leased_space of a layer that is not constructed yet
NoLease == [target_size_file |-> NoTarget, uses_base |-> FALSE,
            rec |-> NoRecords]

NoCheck == [layer |-> 0, ran |-> FALSE, uses_base |-> FALSE,
            events |-> <<>>, outcome |-> "none", d |-> NewLedger]

\* no attribution runs
AttrIdle ==
    [step |-> "idle", tags |-> <<>>, declared |-> <<>>, dm |-> EmptyMap,
     stack |-> <<>>, top |-> 0, entered |-> EmptyMap, from |-> EmptyMap]

\* no frozen manifest written
NoManifest == [writes |-> 0, Base |-> <<>>, OS |-> "", DebianPackages |-> {}]

\* nothing made yet: no directory, an empty manifest directory, no link
NoTree == [dirs |-> {}, mfdir |-> {}, link |-> <<>>]

\* a full build of a config file that declares no associated filesystem
PlainRun ==
    [manifestOnly |-> FALSE, stream |-> FALSE, assoc |-> {}]

IdleCfg ==
    [n |-> 1, rootBase |-> FALSE, os |-> "linux", genTSF |-> FALSE,
     genInter |-> FALSE, hasLimits |-> FALSE, policy |-> NoPolicy,
     errorOnLimits |-> TRUE, baseManifest |-> FALSE] @@ PlainRun

\* no part is studied on its own
NoCalc == [op |-> "none", in |-> <<>>, out |-> <<>>]

\* the history and the outputs before the first constructor runs
OutputsEmpty ==
    /\ log = <<>>
    /\ manifest = [L \in Layers |-> NoManifest]
    /\ tree = NoTree
    /\ declaredPkgs = [L \in Layers |-> <<>>]

NothingBuilt == calc = NoCalc /\ OutputsEmpty

\* no process runs: neither the orchestrator nor a content placement
OrchestratorQuiet ==
    /\ cfg = IdleCfg
    /\ ls = [L \in Layers |-> NoLease]
    /\ rootfs = <<>>
    /\ pc = [step |-> "idle", layer |-> 0]
    /\ resets = {}
    /\ checks = [L \in Layers |-> 0]
    /\ lastCheck = NoCheck
    /\ OutputsEmpty

\* the orchestrator does not run
OrchestratorIdle == OrchestratorQuiet /\ calc = NoCalc

----------------------------------------------------------------------------
(* copytarget.py main(): one content-placement process.  It reads the      *)
(* ledger named by --target-size-file, handles the items of its manifests  *)
(* one by one and writes the ledger when all are done.                     *)

CptFile == <<"fs_size", 1>>

RawPaths == {<<"fa">>, <<".", "fa">>, <<"fb">>}
RawModules == {"modx", "ModX", "mody"}
FileSizes == 1..MaxFileSize

CptIdle == [running |-> FALSE, rec |-> NoRecords, ops |-> 0]

\* ledgers an earlier invocation can have left in the output folder
LeftoverLedgers ==
    LET fresh == readTargetSizeManifest(CptFile, NoFile) IN
    {addFile(fresh, <<"fa">>, "modx", 1).fileSizeDict,
     addFile(addFile(fresh, <<"fb">>, "mody", 2),
             <<"fa">>, "modx", 1).fileSizeDict}

\* CopyTarget.__init__: recordFileSize = FileSizeRecords(targetSizeFile)
CptStart(f) ==
    /\ UNCHANGED <<orchestratorVars, attr, calc>>
    /\ ~cpt.running
    /\ cptLast = "none"
    /\ cpt' = [running |-> TRUE, rec |-> FileSizeRecords(f, disk), ops |-> 0]
    /\ cptLast' = "start"
    /\ UNCHANGED disk

\* processFileItem, copy branch: recordFileSize.addFile(...)
CptAddFile(destination, module, size) ==
    /\ UNCHANGED <<orchestratorVars, attr, calc>>
    /\ cpt.running
    /\ cpt.ops < MaxCptOps
    /\ cpt' = [cpt EXCEPT !.rec = addFile(@, destination, module, size),
                          !.ops = @ + 1]
    /\ cptLast' = IF normpath(destination) \in DOMAIN cpt.rec.fileRecordsDict
                  THEN "readd" ELSE "add"
    /\ UNCHANGED disk

\* addFile on a directory source without a size: sys.exit(1), nothing is
\* written
CptAddDirectory ==
    /\ UNCHANGED <<orchestratorVars, attr, calc>>
    /\ cpt.running
    /\ cpt' = CptIdle
    /\ cptLast' = "exit"
    /\ UNCHANGED disk

\* processFileItem, remove branch: recordFileSize.removeFile(...)
CptRemoveFile(destination, module) ==
    /\ UNCHANGED <<orchestratorVars, attr, calc>>
    /\ cpt.running
    /\ cpt.ops < MaxCptOps
    /\ cpt' = [cpt EXCEPT !.rec = removeFile(@, destination, module),
                          !.ops = @ + 1]
    /\ cptLast' = IF normpath(destination) \in DOMAIN cpt.rec.fileRecordsDict
                  THEN IF cpt.rec.fileRecordsDict[normpath(destination)].module
                          = lower(module)
                       THEN "remove" ELSE "remove_other"
                  ELSE "remove_absent"
    /\ UNCHANGED disk

\* main(): recordFileSize.writeTargetSizeManifest() and exit
CptWrite ==
    /\ UNCHANGED <<orchestratorVars, attr, calc>>
    /\ cpt.running
    /\ disk' = IF cpt.rec.targetSizeFile = NoTarget THEN disk
               ELSE [disk EXCEPT ![cpt.rec.targetSizeFile] =
                        writeTargetSizeManifest(cpt.rec, @)]
    /\ cpt' = CptIdle
    /\ cptLast' = "write"

InitCopyTarget ==
    /\ disk \in [{CptFile} ->
                   {NoFile} \cup {[exists |-> TRUE, data |-> d] :
                                     d \in LeftoverLedgers}]
    /\ cpt = CptIdle
    /\ cptLast = "none"
    /\ attr = AttrIdle
    /\ OrchestratorIdle

NextCopyTarget ==
    \/ \E f \in {CptFile, NoTarget} : CptStart(f)
    \/ \E p \in RawPaths, m \in RawModules, s \in FileSizes :
          CptAddFile(p, m, s)
    \/ CptAddDirectory
    \/ \E p \in RawPaths, m \in RawModules : CptRemoveFile(p, m)
    \/ CptWrite

SpecCopyTarget == InitCopyTarget /\ [][NextCopyTarget]_vars

----------------------------------------------------------------------------
(* build_fs.py: FSLeasedSpace.__init__, change_target_size_file and        *)
(* reset_target_size_file                                                  *)

\* FSLeasedSpace(size_limits_file, build_fs) for layer L: only the root can
\* have an image or tarball as its Base (fs_base is not None)
FSLeasedSpace(L, c, dsk) ==
    LET base == (L = c.n /\ c.rootBase)
        file == IF base THEN fs_layer_size_file(L) ELSE fs_size_file(L)
    IN [target_size_file |-> file, uses_base |-> base,
        rec |-> IF c.genTSF THEN FileSizeRecords(file, dsk) ELSE NoRecords]

change_target_size_file(l, c, file, dsk) ==
    IF ~c.genTSF THEN l
    ELSE [l EXCEPT !.target_size_file = file,
                   !.rec = FileSizeRecords(file, dsk)]

\* what reset_target_size_file leaves in the file: it is truncated, read as
\* the zero ledger and written
ResetFile == writeTargetSizeManifest(
                 readTargetSizeManifest(fs_size_file(1), NoFile), NoFile)

----------------------------------------------------------------------------
(* The inputs of a build: the packages a layer declares and what the       *)
(* package manager then reports, the items of its copytarget manifests,    *)
(* the limits file and the size du measures.                               *)

PkgA == <<"a">>
PkgB == <<"b">>
PkgC == <<"c">>
PkgD == <<"d">>
PkgX == <<"x">>

\* dpkg-query's view of the packages: Installed-Size in KiB (or none, then
\* the bytes of the package's files) and the Depends field
Catalog ==
    (PkgA :> [hasSize |-> TRUE, size |-> 1, fileBytes |-> 0,
              hasDepends |-> TRUE,
              depends |-> <<"b", ",", " ", "c", " ", "(", ">", "=", " ",
                            "1", ")">>])
    @@ (PkgB :> [hasSize |-> FALSE, size |-> 0, fileBytes |-> 5,
                 hasDepends |-> FALSE, depends |-> <<>>])
    @@ (PkgC :> [hasSize |-> TRUE, size |-> 2, fileBytes |-> 0,
                 hasDepends |-> TRUE,
                 depends |-> <<"d", " ", "|", " ", "e">>])
    @@ (PkgD :> [hasSize |-> TRUE, size |-> 1, fileBytes |-> 0,
                 hasDepends |-> TRUE, depends |-> <<"a">>])
    @@ (PkgX :> [hasSize |-> TRUE, size |-> 1, fileBytes |-> 0,
                 hasDepends |-> FALSE, depends |-> <<>>])

\* the packages of the base image of a root that extends one
BasePackages == <<PkgX>>

\* DebianPackages of a layer config as DebianPackageManager.__init__ keeps
\* them (debian_module, in order), and the packages the install then adds
NoPackages == [order |-> <<>>, module |-> EmptyMap, adds |-> <<>>]

DeclaredCore ==
    [order |-> <<PkgA>>, module |-> (PkgA :> lower("core")),
     adds |-> <<PkgA, PkgB, PkgC, PkgD>>]

DeclaredPlain ==
    [order |-> <<PkgX>>, module |-> (PkgX :> "unknown"), adds |-> <<PkgX>>]

PackageChoices == {NoPackages, DeclaredCore, DeclaredPlain}

RECURSIVE installAll(_, _)
installAll(installed, adds) ==
    IF adds = <<>> THEN installed
    ELSE installAll(IF Head(adds) \in Range(installed) THEN installed
                    ELSE Append(installed, Head(adds)),
                    Tail(adds))

\* the package manifest the install helper writes
packageManifest(installed, base_packages) ==
    [order |-> installed,
     installed_packages |-> [p \in Range(installed) |-> Catalog[p]],
     base_packages |-> base_packages]

\* the items of a layer's copytarget manifests
CopyAdd(p, m, s) == [op |-> "add", destination |-> p, module |-> m,
                     size |-> s]
CopyRemove(p, m) == [op |-> "remove", destination |-> p, module |-> m,
                     size |-> 0]

CopyTargetChoices ==
    {<<>>,
     <<CopyAdd(<<"fa">>, "ModX", 1)>>,
     <<CopyAdd(<<".", "fb">>, "mody", MaxFileSize),
       CopyRemove(<<"fa">>, "modx")>>}

\* one copytarget process: read the ledger, handle the items, write it
RECURSIVE processItems(_, _)
processItems(r, items) ==
    IF items = <<>> THEN r
    ELSE LET it == Head(items) IN
         processItems(IF it.op = "add"
                      THEN addFile(r, it.destination, it.module, it.size)
                      ELSE removeFile(r, it.destination, it.module),
                      Tail(items))

execute_host_scripts(file, items, dsk) ==
    writeTargetSizeManifest(
        processItems(FileSizeRecords(file, dsk), items), dsk[file])

\* limits files
GenerousPolicy ==
    [hasMaxFSSize |-> TRUE,
     maxFSSize |-> Scalar(<<"3", "0", "0", "0", "B">>),
     hasModules |-> TRUE,
     modules |-> [m \in {"core", "unknown", "modx", "mody"} |->
                     Scalar(<<"+", "9", "9", "9", "9", "B">>)]]

AbsolutePolicy ==
    [hasMaxFSSize |-> TRUE,
     maxFSSize |-> ByLayer("rfs1" :> <<"9", "9", "9", "9", " ", "b", "y",
                                       "t", "e", "s">>),
     hasModules |-> TRUE,
     modules |-> ("core" :> Scalar(<<"5", "0", "0", "0", "B">>))
                 @@ ("unknown" :> Scalar(<<"+", "1", "B">>))
                 @@ ("modx" :> ByLayer("others" :> <<"+", "0", "B">>))]

MainPolicies == {GenerousPolicy, AbsolutePolicy}

\* what du -s can report for the tree
DuValues == {MaxDu, MaxDu * KiB}

\* a ledger a former build left in the output folder
LeftoverLedger ==
    LET fresh == readTargetSizeManifest(fs_size_file(1), NoFile)
        pkgs == processDebianPackageManifest(
                    fresh, DeclaredCore,
                    packageManifest(DeclaredCore.adds, {}), FALSE)
    IN addFile(pkgs, <<"fa">>, "modx", 1).fileSizeDict

Configs ==
    {c @@ PlainRun :
       c \in {c \in [n : Layers, rootBase : BOOLEAN, os : {"linux", "qnx"},
                     genTSF : BOOLEAN, genInter : BOOLEAN,
                     hasLimits : BOOLEAN,
                     policy : MainPolicies \cup {NoPolicy},
                     errorOnLimits : BOOLEAN, baseManifest : BOOLEAN] :
                 /\ c.baseManifest => c.rootBase
                 /\ c.hasLimits => c.genTSF
                 /\ c.hasLimits <=> c.policy # NoPolicy
                 /\ ~c.hasLimits => c.errorOnLimits}}

----------------------------------------------------------------------------
(* build_fs.py: __main__ and the phases of BuildFS.  pc.step names the     *)
(* next step, pc.layer the layer it belongs to.                            *)

At(step, L) == pc = [step |-> step, layer |-> L] /\ L <= cfg.n

Goto(step, L) == pc' = [step |-> step, layer |-> L]

cptVars == <<cpt, cptLast, attr, calc>>

\* an event of the history: a phase of a layer begins or ends; fs tells the
\* primary chain from an associated filesystem (layer: the one declaring it)
Ev(phase, L, mark) ==
    [phase |-> phase, layer |-> L, mark |-> mark, fs |-> "primary"]

Phases == <<"PRE_BUILD", "BUILD", "POST_BUILD", "OUTPUT">>

\* process_associated_fs of a layer that declares one associated
\* filesystem: its four phases, one after the other
process_associated_fs(L) ==
    [i \in 1..8 |->
       [phase |-> Phases[(i + 1) \div 2], layer |-> L,
        mark |-> IF i % 2 = 1 THEN "begin" ELSE "end",
        fs |-> "associated"]]

\* json_file as __main__ hands it to the constructor of the leaf ("STDIN"
\* when the config is read from standard input) and as a layer hands
\* p_config to its parent
json_file(c, L) == IF c.stream /\ L = 1 THEN "STDIN" ELSE "config.json"

\* self.fs_base is set: the layer names a parent config or a base image
hasBase(c, L) == L < c.n \/ c.rootBase

\* the Base of a config read from standard input is a relative path
isabs(c, L) == ~(c.stream /\ L = 1)

\* "if not os.path.isabs(self.fs_base): if not self.json_file:"
relativeBaseOnStream(c, L) ==
    hasBase(c, L) /\ ~isabs(c, L) /\ json_file(c, L) = ""

\* the directories __main__ (init_logger) and BuildFS.__init__ have made
\* when Base is looked at
madeDirs == {"output_folder", "work_dir", "filesystem_work_dir"}

\* <output_folder>/<Output>.MANIFEST.json and its name in the tree
json_manifest_file(L) == <<"output_folder", output_name(L), "MANIFEST.json">>
manifest_basename(L) == <<output_name(L), "MANIFEST.json">>

\* the manifest a base image carries when it was built by this tool
BaseImageManifestName == <<"base", "MANIFEST.json">>
baseImageManifest(c) ==
    [Base |-> <<"older.tar">>, OS |-> c.os,
     DebianPackages |-> Range(BasePackages)]

\* Base and OS as the layer's config file states them: the leaf writes its
\* OS with a capital, which __main__ accepts (config_os.lower())
configBase(c, L) ==
    IF L < c.n THEN <<"configs", output_name(L + 1), "CONFIG.json">>
    ELSE IF c.rootBase THEN <<"base.tar">> ELSE <<>>
configOS(c, L) ==
    IF L > 1 THEN c.os ELSE IF c.os = "linux" THEN "Linux" ELSE "QNX"

\* convert_to_manifest of layer L: what is written to json_manifest_file
\* (ok is FALSE when the old manifest cannot be opened)
convert_to_manifest(L) ==
    LET own == [Base |-> configBase(cfg, L), OS |-> configOS(cfg, L),
                DebianPackages |-> Range(declaredPkgs[L])]
        found == IF L < cfg.n THEN "parent"
                 ELSE IF ~cfg.rootBase THEN "none"
                 ELSE IF cfg.os = "linux"
                 THEN IF tree.mfdir # {} THEN "base" ELSE "none"
                 ELSE IF cfg.baseManifest THEN "base" ELSE "missing"
        old == IF found = "parent" THEN manifest[L + 1]
               ELSE baseImageManifest(cfg)
    IN IF found \in {"none", "missing"}
       THEN [ok |-> found = "none"] @@ own
       ELSE IF cfg.os = "linux"
       THEN [ok |-> TRUE, Base |-> old.Base, OS |-> old.OS,
             DebianPackages |-> Range(rootfs)]
       ELSE [ok |-> TRUE, Base |-> old.Base, OS |-> own.OS,
             DebianPackages |-> own.DebianPackages]

\* a post_build that removes nothing from the manifest directory
keptManifestDir(files) == files

\* "for mf in os.listdir(mf_dir): os.remove(...)"
clearedManifestDir(files) == {}

\* BuildFS.__init__ up to the construction of the parent: the directories,
\* the test of Base, leased_space
Construct(L) ==
    /\ At("construct", L)
    /\ tree' = [tree EXCEPT !.dirs = @ \cup madeDirs]
    /\ IF relativeBaseOnStream(cfg, L)
       THEN Goto("config_error", L) /\ UNCHANGED ls
       ELSE /\ ls' = [ls EXCEPT ![L] = FSLeasedSpace(L, cfg, disk)]
            /\ IF L < cfg.n THEN Goto("construct", L + 1)
               ELSE IF cfg.n > 1 THEN Goto("link", cfg.n - 1)
               ELSE Goto("pre_build", 1)
    /\ UNCHANGED <<disk, cfg, rootfs, resets, checks, lastCheck, cptVars>>
    /\ UNCHANGED <<log, manifest, declaredPkgs>>

\* BuildFS.__init__ after the parent is constructed: the two leased spaces
\* are tied together
Link(L) ==
    /\ At("link", L)
    /\ L < cfg.n
    /\ ls' = IF ls[L + 1].uses_base
             THEN [ls EXCEPT ![L] =
                      change_target_size_file([@ EXCEPT !.uses_base = TRUE],
                                              cfg, fs_layer_size_file(L),
                                              disk)]
             ELSE [ls EXCEPT ![L + 1] =
                      change_target_size_file(@, cfg,
                                              ls[L].target_size_file, disk)]
    /\ IF L > 1 THEN Goto("link", L - 1) ELSE Goto("pre_build", 1)
    /\ UNCHANGED <<disk, cfg, rootfs, resets, checks, lastCheck, cptVars>>
    /\ UNCHANGED <<log, manifest, tree, declaredPkgs>>

\* the reset without the inner condition
resetsLedgerOfEveryLayer(c, L, l) == c.genTSF

\* pre_build: "if generate_target_size_file == yes: if is_root_build_FS or
\* leased_space.uses_base: reset_target_size_file()"

resetsLedger(c, L, l) == c.genTSF /\ (L = c.n \/ l.uses_base)

\* pre_build up to process_parent: the reset of the ledger and the
\* extraction of the base
PreBuild(L) ==
    /\ At("pre_build", L)
    /\ LET reset == resetsLedger(cfg, L, ls[L])
           file == ls[L].target_size_file
       IN /\ disk' = IF reset THEN [disk EXCEPT ![file] = ResetFile]
                     ELSE disk
          /\ ls' = IF reset
                   THEN [ls EXCEPT ![L] =
                            change_target_size_file(@, cfg, file, disk')]
                   ELSE ls
          /\ resets' = IF reset THEN resets \cup {L} ELSE resets
    /\ rootfs' = IF L = cfg.n /\ cfg.rootBase /\ cfg.os = "linux"
                 THEN BasePackages ELSE rootfs
    /\ tree' = IF L = cfg.n /\ cfg.rootBase /\ cfg.os = "linux"
                  /\ cfg.baseManifest
               THEN [tree EXCEPT !.mfdir = {BaseImageManifestName},
                                 !.link = BaseImageManifestName]
               ELSE tree
    /\ log' = Append(log, Ev("PRE_BUILD", L, "begin"))
    /\ IF L < cfg.n THEN Goto("pre_build", L + 1)
       ELSE Goto("pre_install", L)
    /\ UNCHANGED <<cfg, checks, lastCheck, cptVars, manifest, declaredPkgs>>

\* pre_build after process_parent: the pre-install scripts
PreInstall(L) ==
    /\ At("pre_install", L)
    /\ IF cfg.os = "linux" THEN Goto("build_packages", L)
       ELSE Goto("build_copytargets", L)
    /\ log' = Append(log, Ev("PRE_BUILD", L, "end"))
    /\ UNCHANGED <<disk, cfg, ls, rootfs, resets, checks, lastCheck, cptVars>>
    /\ UNCHANGED <<manifest, tree, declaredPkgs>>

\* base_packages of the package manifest the install helper writes: the
\* packages of the base image, or all that were installed when it started
base_packages(fromBase) ==
    IF ~cfg.rootBase THEN {}
    ELSE IF fromBase THEN Range(BasePackages)
    ELSE Range(rootfs)

\* LinuxBuildFS.build, first half: deb_manager.build_filesystem()
BuildPackages(L, declared, fromBase) ==
    /\ At("build_packages", L)
    /\ IF declared.order = <<>>
       THEN /\ Goto("build_copytargets", L)
            /\ UNCHANGED <<disk, ls, rootfs>>
       ELSE /\ rootfs' = installAll(rootfs, declared.adds)
            /\ IF ~cfg.genTSF
               THEN /\ Goto("build_copytargets", L)
                    /\ UNCHANGED <<disk, ls>>
               ELSE LET r == processDebianPackageManifest(
                                 ls[L].rec, declared,
                                 packageManifest(rootfs',
                                                 base_packages(fromBase)),
                                 ls[L].uses_base)
                    IN /\ ls' = [ls EXCEPT ![L].rec = r]
                       /\ IF r.crashed
                          THEN Goto("failed", L) /\ UNCHANGED disk
                          ELSE /\ Goto("build_copytargets", L)
                               /\ disk' = [disk EXCEPT
                                             ![r.targetSizeFile] =
                                                writeTargetSizeManifest(r, @)]
    /\ log' = Append(log, Ev("BUILD", L, "begin"))
    /\ declaredPkgs' = [declaredPkgs EXCEPT ![L] = declared.order]
    /\ UNCHANGED <<cfg, resets, checks, lastCheck, cptVars, manifest, tree>>

\* build, second half: cpt_exec.execute_host_scripts() runs copytarget with
\* --target-size-file=<the layer's ledger> when ledgers are generated
BuildCopyTargets(L, items) ==
    /\ At("build_copytargets", L)
    /\ disk' = IF cfg.genTSF /\ items # <<>>
               THEN [disk EXCEPT ![ls[L].target_size_file] =
                        execute_host_scripts(ls[L].target_size_file, items,
                                             disk)]
               ELSE disk
    /\ Goto("post_build", L)
    /\ log' = (IF cfg.os = "linux" THEN log
               ELSE Append(log, Ev("BUILD", L, "begin")))
              \o <<Ev("BUILD", L, "end")>>
    /\ UNCHANGED <<cfg, ls, rootfs, resets, checks, lastCheck, cptVars>>
    /\ UNCHANGED <<manifest, tree, declaredPkgs>>

\* the check without the is_leaf_build_FS condition
checksLedgerOfEveryLayer(c, L) == TRUE

\* post_build: "if generate_intermediate == yes: check... else: if
\* is_leaf_build_FS: check..."

checksLedger(c, L) == c.genInter \/ L = 1

\* post_build: convert_to_manifest, the end of a manifest-only run, the
\* manifest directory of the tree, and check_target_size_manifest for the
\* leaf (for every layer when intermediate outputs are generated)
PostBuild(L, du) ==
    /\ At("post_build", L)
    /\ LET after == IF L = 1 \/ cfg.genInter THEN "process_output"
                    ELSE "pre_install"
           to == IF after = "process_output" THEN L ELSE L - 1
           mf == convert_to_manifest(L)
       IN IF ~mf.ok
          THEN /\ Goto("failed", L)
               /\ UNCHANGED <<manifest, tree, disk, checks, lastCheck>>
          ELSE
          /\ manifest' = [manifest EXCEPT
                            ![L] = [writes |-> @.writes + 1,
                                    Base |-> mf.Base, OS |-> mf.OS,
                                    DebianPackages |-> mf.DebianPackages]]
          /\ IF cfg.os = "linux" /\ cfg.manifestOnly
             THEN /\ Goto("exited", L)
                  /\ UNCHANGED <<tree, disk, checks, lastCheck>>
             ELSE
             /\ tree' = IF cfg.os = "linux"
                        THEN [tree EXCEPT
                                !.mfdir = clearedManifestDir(@)
                                             \cup {manifest_basename(L)},
                                !.link = manifest_basename(L)]
                        ELSE tree
             /\ IF checksLedger(cfg, L) /\ cfg.hasLimits
                THEN LET file == ls[L].target_size_file
                         st == checkLedger(FileSizeRecords(file, disk),
                                           cfg.policy, output_name(L),
                                           ls[L].uses_base,
                                           cfg.errorOnLimits,
                                           cfg.os = "qnx", du)
                     IN /\ checks' = [checks EXCEPT ![L] = @ + 1]
                        /\ lastCheck' = [layer |-> L, ran |-> TRUE,
                                         uses_base |-> ls[L].uses_base,
                                         events |-> st.events,
                                         outcome |-> st.outcome,
                                         d |-> st.d]
                        /\ disk' = IF st.outcome = "written"
                                   THEN [disk EXCEPT ![file] =
                                            [exists |-> TRUE, data |-> st.d]]
                                   ELSE disk
                        /\ IF st.outcome \in {"exit", "crash"}
                           THEN Goto("failed", L)
                           ELSE Goto(after, to)
                ELSE /\ Goto(after, to)
                     /\ UNCHANGED <<disk, checks, lastCheck>>
    /\ log' = Append(log, Ev("POST_BUILD", L, "begin"))
              \o (IF pc'.step \in {"failed", "exited"} THEN <<>>
                  ELSE <<Ev("POST_BUILD", L, "end")>>)
    /\ UNCHANGED <<cfg, ls, rootfs, resets, cptVars, declaredPkgs>>

\* process_output: the layer's image or tarball is emitted
ProcessOutput(L) ==
    /\ At("process_output", L)
    /\ IF L = 1 THEN Goto("done", 1) ELSE Goto("pre_install", L - 1)
    /\ log' = log \o <<Ev("OUTPUT", L, "begin"), Ev("OUTPUT", L, "end")>>
              \o (IF cfg.os = "linux" /\ L \in cfg.assoc
                  THEN process_associated_fs(L) ELSE <<>>)
    /\ UNCHANGED <<disk, cfg, ls, rootfs, resets, checks, lastCheck, cptVars>>
    /\ UNCHANGED <<manifest, tree, declaredPkgs>>

Init ==
    /\ cfg \in Configs
    /\ disk \in {[f \in LedgerFiles |-> NoFile]}
                  \cup (IF cfg.genTSF
                        THEN {[f \in LedgerFiles |->
                                 [exists |-> TRUE, data |-> LeftoverLedger]]}
                        ELSE {})
    /\ cpt = CptIdle
    /\ cptLast = "none"
    /\ attr = AttrIdle
    /\ ls = [L \in Layers |-> NoLease]
    /\ rootfs = <<>>
    /\ pc = [step |-> "construct", layer |-> 1]
    /\ resets = {}
    /\ checks = [L \in Layers |-> 0]
    /\ lastCheck = NoCheck
    /\ NothingBuilt

Next ==
    \/ \E L \in Layers : Construct(L)
    \/ \E L \in Layers : Link(L)
    \/ \E L \in Layers : PreBuild(L)
    \/ \E L \in Layers : PreInstall(L)
    \/ \E L \in Layers, declared \in PackageChoices, fromBase \in BOOLEAN :
          BuildPackages(L, declared, fromBase)
    \/ \E L \in Layers, items \in CopyTargetChoices :
          BuildCopyTargets(L, items)
    \/ \E L \in Layers, du \in DuValues : PostBuild(L, du)
    \/ \E L \in Layers : ProcessOutput(L)

Spec == Init /\ [][Next]_vars

----------------------------------------------------------------------------
(* Claims about FileSizeRecords, checked under SpecCopyTarget *)

\* the two ledgers agree on the totals, on the file records and on every
\* module entry of b; a module entry that only a has is an empty one
SameUpToEmptyModules(a, b) ==
    /\ a.fileSizeDict.totalFSSize = b.fileSizeDict.totalFSSize
    /\ a.fileSizeDict.totalNumberOfFiles = b.fileSizeDict.totalNumberOfFiles
    /\ a.fileRecordsDict = b.fileRecordsDict
    /\ DOMAIN b.fileSizeDict.modules \subseteq DOMAIN a.fileSizeDict.modules
    /\ \A m \in DOMAIN a.fileSizeDict.modules :
          a.fileSizeDict.modules[m] =
             IF m \in DOMAIN b.fileSizeDict.modules
             THEN b.fileSizeDict.modules[m]
             ELSE NewModule

----------------------------------------------------------------------------
(* The limit check on a single layer, under a wider choice of limits files *)
(* and of recorded sizes.                                                  *)

digitChar(k) ==
    CASE k = 0 -> "0" [] k = 1 -> "1" [] k = 2 -> "2" [] k = 3 -> "3"
      [] k = 4 -> "4" [] k = 5 -> "5" [] k = 6 -> "6" [] k = 7 -> "7"
      [] k = 8 -> "8" [] k = 9 -> "9"

\* the decimal digits of n, as str(n) writes them
RECURSIVE decimal(_)
decimal(n) ==
    IF n < 10 THEN <<digitChar(n)>>
    ELSE Append(decimal(n \div 10), digitChar(n % 10))

\* a limit as the author of a limits file writes it: "+12 bytes", "12B"
LimitText(spec) ==
    (IF spec.plus THEN <<"+">> ELSE <<>>) \o decimal(spec.n) \o spec.unit

LimitNumbers == {MaxFileSize, 10 + MaxFileSize}

LimitUnits == {<<" ", "b", "y", "t", "e", "s">>, <<"b", "y", "t", "e">>,
               <<"B">>}

LimitSpecs == [plus : BOOLEAN, n : LimitNumbers, unit : LimitUnits]

RoomyTotal == Scalar(<<"5", "0", "0", "0", "B">>)

\* every module has the limit spec, the total has room
LimitPolicy(spec) ==
    [hasMaxFSSize |-> TRUE, maxFSSize |-> RoomyTotal, hasModules |-> TRUE,
     modules |-> [m \in {"core", "unknown", "modx", "mody"} |->
                     Scalar(LimitText(spec))]]

PolicyNoMaxFSSize == [GenerousPolicy EXCEPT !.hasMaxFSSize = FALSE]

PolicyNoLayer ==
    [GenerousPolicy EXCEPT
        !.maxFSSize = ByLayer("rfs2" :> <<"5", "0", "0", "0", "B">>)]

PolicyNoModules == [GenerousPolicy EXCEPT !.hasModules = FALSE]

PolicyNoModule ==
    [GenerousPolicy EXCEPT
        !.modules = [m \in {"core", "unknown"} |-> GenerousPolicy.modules[m]]]

PolicyNoModuleLayer ==
    [GenerousPolicy EXCEPT
        !.modules["modx"] = ByLayer("rfs2" :> <<"+", "9", "B">>)]

PolicyNoUnit ==
    [GenerousPolicy EXCEPT !.modules["modx"] = Scalar(<<"+", "9">>)]

PolicyNoDigits ==
    [GenerousPolicy EXCEPT !.maxFSSize = Scalar(<<"B">>)]

PolicyTightTotal ==
    [GenerousPolicy EXCEPT !.maxFSSize = Scalar(<<"1", "B">>)]

CheckPolicies ==
    {LimitPolicy(spec) : spec \in LimitSpecs}
       \cup {PolicyNoMaxFSSize, PolicyNoLayer, PolicyNoModules,
             PolicyNoModule, PolicyNoModuleLayer, PolicyNoUnit,
             PolicyNoDigits, PolicyTightTotal}

CheckConfigs ==
    {c @@ PlainRun :
       c \in {c \in [n : {1}, rootBase : BOOLEAN, os : {"linux", "qnx"},
                     genTSF : {TRUE}, genInter : {FALSE},
                     hasLimits : {TRUE}, policy : CheckPolicies,
                     errorOnLimits : BOOLEAN, baseManifest : BOOLEAN] :
                 c.baseManifest => c.rootBase}}

CheckCopyTargetChoices ==
    {<<>>,
     <<CopyAdd(<<"fa">>, "modx", MaxFileSize - 1)>>,
     <<CopyAdd(<<"fa">>, "ModX", MaxFileSize + 1),
       CopyAdd(<<"fb">>, "mody", MaxFileSize)>>}

InitCheck ==
    /\ cfg \in CheckConfigs
    /\ disk = [f \in LedgerFiles |-> NoFile]
    /\ cpt = CptIdle
    /\ cptLast = "none"
    /\ attr = AttrIdle
    /\ ls = [L \in Layers |-> NoLease]
    /\ rootfs = <<>>
    /\ pc = [step |-> "construct", layer |-> 1]
    /\ resets = {}
    /\ checks = [L \in Layers |-> 0]
    /\ lastCheck = NoCheck
    /\ NothingBuilt

NextCheck ==
    \/ Construct(1)
    \/ PreBuild(1)
    \/ PreInstall(1)
    \/ \E declared \in PackageChoices, fromBase \in BOOLEAN :
          BuildPackages(1, declared, fromBase)
    \/ \E items \in CheckCopyTargetChoices : BuildCopyTargets(1, items)
    \/ \E du \in DuValues : PostBuild(1, du)
    \/ ProcessOutput(1)

SpecCheck == InitCheck /\ [][NextCheck]_vars

----------------------------------------------------------------------------
(* Claims about the ledger in a chain build, checked under Spec *)

\* the names of the file and package entries of a ledger
entries(d) ==
    UNION {{<<"file", p>> : p \in DOMAIN d.modules[m].files}
              \cup {<<"debian", p>> : p \in DOMAIN d.modules[m].debians} :
           m \in DOMAIN d.modules}

moduleSizes(d) == [m \in DOMAIN d.modules |-> d.modules[m].moduleSize]

debianCounts(d) ==
    [m \in DOMAIN d.modules |-> Cardinality(DOMAIN d.modules[m].debians)]

\* C2: a package recorded again counts once.  In the ledger a layer's
\* leased space holds, every module's numberOfDebians is the number of
\* packages in its debians map and its moduleSize is the sum of its files
\* and of its packages, each with its latest size; totalNumberOfDebians is
\* the number of recorded packages.
PackagesCountOnce ==
    \A L \in Layers :
       LET r == ls[L].rec IN
       ~r.crashed =>
          /\ \A m \in DOMAIN r.fileSizeDict.modules :
                LET e == r.fileSizeDict.modules[m] IN
                /\ e.numberOfDebians = Cardinality(DOMAIN e.debians)
                /\ e.moduleSize = SumMap(e.files) + SumMap(e.debians)
          /\ r.fileSizeDict.totalNumberOfDebians =
                SumMap(debianCounts(r.fileSizeDict))

\* C3: no recorded entry is lost between writers.  Whenever the package
\* step of a layer writes the ledger file, the file afterwards still holds
\* every file and package entry it held just before.
PackageWriteKeepsEntries ==
    [][\A L \in Layers :
          (At("build_packages", L)
             /\ disk'[ls[L].target_size_file] # disk[ls[L].target_size_file])
          => entries(disk[ls[L].target_size_file].data)
                \subseteq entries(disk'[ls[L].target_size_file].data)]_vars

\* C4: in every ledger file totalFSSize is the sum of the module sizes; the
\* du measurement of the limit check is not stored as totalFSSize.
WrittenTotalIsSumOfModules ==
    \A f \in DOMAIN disk :
       disk[f].exists =>
          disk[f].data.totalFSSize = SumMap(moduleSizes(disk[f].data))

\* the layer's own Base is an image or a tarball
extendsBase(L) == L = cfg.n /\ cfg.rootBase

\* C5 as stated: a ledger is zeroed only for a root layer or a layer that
\* itself extends a base image; never for a layer whose base is a config.
ResetOnlyRootOrOwnBase ==
    \A L \in resets : L = cfg.n \/ extendsBase(L)

\* C5, amended: with ledger generation enabled a layer's ledger is zeroed at
\* the start of its build exactly when the layer is a root or the layer or
\* one of its ancestors extends a base image or tarball.
ResetOnlyRootOrBaseInChain ==
    \A L \in 1..cfg.n :
       (pc.step \notin {"construct", "link"}
          /\ ~(pc.step = "pre_build" /\ pc.layer <= L))
       => (L \in resets <=>
              cfg.genTSF /\ (L = cfg.n \/ \E A \in L..cfg.n : extendsBase(A)))

\* a leaf whose parent extends a base image had its ledger zeroed
ResetOnlyRootOrBaseInChainWitness ==
    /\ cfg.n > 1
    /\ cfg.rootBase
    /\ pc.step = "done"
    /\ 1 \in resets

\* layer L has completed post_build
postBuilt(L) ==
    /\ L <= cfg.n
    /\ \/ pc.step = "done"
       \/ pc.step = "process_output" /\ pc.layer <= L
       \/ pc.step \in {"pre_install", "build_packages", "build_copytargets",
                       "post_build", "failed"} /\ pc.layer < L

\* C10 as stated: every layer that completes post_build with a limits file
\* supplied has been checked exactly once.
EveryLayerCheckedOnce ==
    \A L \in Layers : (postBuilt(L) /\ cfg.hasLimits) => checks[L] = 1

\* C10, amended: of the layers that complete post_build with a limits file
\* supplied, the leaf is checked exactly once, and an intermediate layer is
\* checked exactly once when intermediate outputs are generated and not at
\* all otherwise.
LeafOrIntermediateCheckedOnce ==
    \A L \in Layers :
       (postBuilt(L) /\ cfg.hasLimits) =>
          checks[L] = IF L = 1 \/ cfg.genInter THEN 1 ELSE 0

\* a two-layer build without intermediate outputs ended: the leaf was
\* checked, its parent was not
LeafOrIntermediateCheckedOnceWitness ==
    /\ pc.step = "done"
    /\ cfg.n > 1
    /\ cfg.hasLimits
    /\ ~cfg.genInter
    /\ checks[1] = 1
    /\ checks[cfg.n] = 0

----------------------------------------------------------------------------
(* Claims about check_target_size_manifest, checked under SpecCheck *)

lastEvent == lastCheck.events[Len(lastCheck.events)]

checkedFile == disk[ls[lastCheck.layer].target_size_file]

\* C6: on a layer that extends a base image an absolute module limit is
\* rejected before any size comparison: when the run of the check reports
\* the rejection, it has evaluated no comparison of the total or of a module
\* before it.
AbsoluteLimitRejectedFirst ==
    (lastCheck.ran /\ lastCheck.uses_base) =>
       \A k \in 1..Len(lastCheck.events) :
          lastCheck.events[k].what = "absolute_module_limit" =>
             \A j \in 1..(k - 1) :
                lastCheck.events[j].kind \notin {"exceeded", "under"}

\* C7 as stated: a policy error ends the process with failure whatever the
\* opt-out says.
PolicyErrorsAlwaysFatal ==
    (lastCheck.ran /\ lastCheck.events # <<>> /\ lastEvent.kind = "policy")
       => lastCheck.outcome = "exit" /\ pc.step = "failed"

\* C7, amended: a policy error (no maxFSSize key, no entry for the layer, no
\* modules section, no entry for a recorded module, an absolute module limit
\* on a layer that extends a base) ends the process with failure unless
\* NV_ERROR_ON_FS_SIZE_LIMITS is 'false'; then it is a warning, the check
\* returns without writing the ledger and the build goes on.  Only a limit
\* value that getIntValue cannot read ends the process whatever the opt-out.
PolicyErrorsFollowOptOut ==
    (lastCheck.ran /\ lastCheck.events # <<>> /\ lastEvent.kind = "policy")
       => IF lastEvent.what = "bad_value"
          THEN lastCheck.outcome \in {"exit", "crash"} /\ pc.step = "failed"
          ELSE IF cfg.errorOnLimits
          THEN lastCheck.outcome = "exit" /\ pc.step = "failed"
          ELSE /\ lastCheck.outcome = "returned"
               /\ pc.step \in {"process_output", "done"}
               /\ checkedFile.data.totalFSSizeLimit = Unknown

\* with the opt-out set, a recorded module without a limit entry was
\* reported and the build went on to emit its output
PolicyErrorsFollowOptOutWitness ==
    /\ lastCheck.ran
    /\ ~cfg.errorOnLimits
    /\ lastCheck.events # <<>>
    /\ lastEvent = [kind |-> "policy", what |-> "module_not_defined",
                    module |-> "modx"]
    /\ lastCheck.outcome = "returned"
    /\ pc.step = "done"

\* C8: whenever the check finds the total or a module over its limit, the
\* ledger file is written with the limits the check looked up: the total's
\* limit and the limit of every module it compared.
LimitsPersistedOnExcess ==
    (lastCheck.ran
       /\ \E k \in 1..Len(lastCheck.events) :
             lastCheck.events[k].kind = "exceeded")
    => /\ checkedFile.exists
       /\ checkedFile.data.totalFSSizeLimit # Unknown
       /\ checkedFile.data.totalFSSizeLimit = lastCheck.d.totalFSSizeLimit
       /\ \A k \in 1..Len(lastCheck.events) :
             lastCheck.events[k].what = "module" =>
                LET m == lastCheck.events[k].module IN
                /\ checkedFile.data.modules[m].moduleSizeLimit # Unknown
                /\ checkedFile.data.modules[m].moduleSizeLimit
                      = lastCheck.d.modules[m].moduleSizeLimit

\* C9: on a layer that extends a base image, with the limit "+L <unit>" on
\* every module, the check reports a module as over its limit exactly when
\* its recorded size is greater than L, and records L as its limit, whatever
\* the unit; a run that is not cut short compares every recorded module.
RelativeLimitEnforced ==
    /\ \A spec \in LimitSpecs :
          getIntValue(LimitText(spec)) = [status |-> "ok", value |-> spec.n]
    /\ (lastCheck.ran /\ lastCheck.uses_base) =>
          \A spec \in {sp \in LimitSpecs : sp.plus} :
             cfg.policy = LimitPolicy(spec) =>
                /\ \A k \in 1..Len(lastCheck.events) :
                      lastCheck.events[k].what = "module" =>
                         LET e == lastCheck.d.modules[
                                     lastCheck.events[k].module]
                         IN /\ lastCheck.events[k].kind = "exceeded"
                                  <=> e.moduleSize > spec.n
                            /\ e.moduleSizeLimit = spec.n
                /\ lastCheck.outcome = "written" =>
                      \A m \in DOMAIN lastCheck.d.modules :
                         \E k \in 1..Len(lastCheck.events) :
                            /\ lastCheck.events[k].what = "module"
                            /\ lastCheck.events[k].module = m

\* on a layer that extends a base image, with "+<MaxFileSize> bytes" and the
\* opt-out set: modx, one byte larger, is over; mody, exactly as large, is
\* under
RelativeLimitEnforcedWitness ==
    /\ lastCheck.ran
    /\ lastCheck.uses_base
    /\ cfg.policy = LimitPolicy([plus |-> TRUE, n |-> MaxFileSize,
                                 unit |-> <<" ", "b", "y", "t", "e", "s">>])
    /\ lastCheck.outcome = "written"
    /\ lastCheck.events =
          <<[kind |-> "under", what |-> "total", module |-> ""],
            [kind |-> "exceeded", what |-> "module", module |-> "modx"],
            [kind |-> "under", what |-> "module", module |-> "mody"]>>
    /\ lastCheck.d.modules["modx"].moduleSize = MaxFileSize + 1
    /\ lastCheck.d.modules["mody"].moduleSize = MaxFileSize

----------------------------------------------------------------------------
\* The attribution of packages to modules, call by call.
\*
\* SpecAttr runs the first loop of processDebianPackageManifest and the
\* recursion of updateDependsModule one call, one loop turn at a time, with
\* the call stack explicit.  The packages are a..; each one's Depends field
\* is one of a few texts, so that chains, version constraints, alternatives,
\* names that are not installed, self-dependencies and cycles all occur.

PkgIds == 1..MaxPkgs

nameOf(k) == <<(<<"a", "b", "c", "d", "e", "f">>)[k]>>

nextPkg(k) == (k % MaxPkgs) + 1
prevPkg(k) == IF k = 1 THEN MaxPkgs ELSE k - 1

\* a name no install provides (an optional dependency)
PkgZ == <<"z">>

AttrTags == {"none", "one", "chain", "alt"}

\* the packages the Depends field of package k names
dependsOn(k, tag) ==
    CASE tag = "none" -> {}
      [] tag = "one" -> {nameOf(nextPkg(k))}
      [] tag = "chain" -> {nameOf(nextPkg(k)), nameOf(nextPkg(nextPkg(k)))}
      [] tag = "alt" -> {nameOf(k), PkgZ, nameOf(prevPkg(k))}

\* the Depends field as dpkg-query prints it
dependsText(k, tag) ==
    CASE tag = "none" -> <<>>
      [] tag = "one" -> nameOf(nextPkg(k))
      [] tag = "chain" ->
            nameOf(nextPkg(k)) \o <<",", " ">>
            \o nameOf(nextPkg(nextPkg(k)))
            \o <<" ", "(", ">", "=", " ", "1", ")">>
      [] tag = "alt" ->
            nameOf(k) \o <<" ", "(", "<", "<", " ", "2", ")", " ", "|", " ">>
            \o PkgZ \o <<" ", "|", " ">> \o nameOf(prevPkg(k))

\* the package manifest of an install of all the packages
AttrManifest(tags) ==
    [order |-> [k \in PkgIds |-> nameOf(k)],
     installed_packages |->
        [p \in {nameOf(k) : k \in PkgIds} |->
            LET k == CHOOSE j \in PkgIds : nameOf(j) = p IN
            [hasSize |-> TRUE, size |-> 1, fileBytes |-> 0,
             hasDepends |-> tags[k] # "none",
             depends |-> dependsText(k, tags[k])]],
     base_packages |-> <<>>]

\* debian_module as DebianPackageManager.__init__ leaves it
AttrDeclared ==
    {[order |-> <<PkgA>>, module |-> (PkgA :> lower("core"))],
     [order |-> <<PkgA, PkgC>>,
      module |-> (PkgA :> lower("core")) @@ (PkgC :> lower("net"))],
     [order |-> <<PkgB, PkgA>>,
      module |-> (PkgB :> "unknown") @@ (PkgA :> lower("core"))]}

countOf(m, p) == IF p \in DOMAIN m THEN m[p] ELSE 0

\* a walk that takes no package for assigned
neverAssigned(dependent, dm) == FALSE

\* if dependent in debian_module: continue
assigned(dependent, dm) == dependent \in DOMAIN dm

\* a call of updateDependsModule(debian, ...) that has not run a line yet
AttrFrame(debian) == [debian |-> debian, at |-> "entry", names |-> <<>>,
                      i |-> 0]

attrTop == attr.stack[Len(attr.stack)]
attrPop == SubSeq(attr.stack, 1, Len(attr.stack) - 1)
attrRest == <<disk, cpt, cptLast, orchestratorVars, calc>>

\* for debian in debian_module.copy(): self.updateDependsModule(debian, ...)
AttrNextOwner ==
    /\ attr.step = "run"
    /\ attr.stack = <<>>
    /\ attr.top <= Len(attr.declared.order)
    /\ LET debian == attr.declared.order[attr.top] IN
       attr' = [attr EXCEPT
                  !.top = @ + 1,
                  !.stack = <<AttrFrame(debian)>>,
                  !.entered = Put(@, debian, countOf(@, debian) + 1)]
    /\ UNCHANGED attrRest

\* the head of updateDependsModule: the two early returns, or the parsing
\* of the Depends field
AttrEntry ==
    /\ attr.step = "run"
    /\ attr.stack # <<>>
    /\ attrTop.at = "entry"
    /\ attr' =
         LET debian == attrTop.debian
             mf == AttrManifest(attr.tags)
         IN IF debian \notin DOMAIN mf.installed_packages
            THEN [attr EXCEPT !.dm = Put(@, debian, "unknown"),
                              !.stack = attrPop]
            ELSE IF ~mf.installed_packages[debian].hasDepends
            THEN [attr EXCEPT !.stack = attrPop]
            ELSE [attr EXCEPT
                    !.stack[Len(attr.stack)] =
                       [@ EXCEPT
                          !.at = "loop",
                          !.names =
                             parseDepends(
                                mf.installed_packages[debian].depends),
                          !.i = 1]]
    /\ UNCHANGED attrRest

\* one turn of "for dependent in depends", or the return at its end
AttrLoop ==
    /\ attr.step = "run"
    /\ attr.stack # <<>>
    /\ attrTop.at = "loop"
    /\ attr' =
         LET f == attrTop IN
         IF f.i > Len(f.names)
         THEN [attr EXCEPT !.stack = attrPop]
         ELSE LET dependent == f.names[f.i] IN
              IF assigned(dependent, attr.dm)
              THEN [attr EXCEPT !.stack[Len(attr.stack)].i = @ + 1]
              ELSE [attr EXCEPT
                      !.dm = Put(@, dependent, attr.dm[f.debian]),
                      !.from = Put(@, dependent, f.debian),
                      !.entered = Put(@, dependent,
                                      countOf(@, dependent) + 1),
                      !.stack = Append([attr.stack EXCEPT
                                          ![Len(attr.stack)].i = @ + 1],
                                       AttrFrame(dependent))]
    /\ UNCHANGED attrRest

\* the loop over the declared packages is over
AttrDone ==
    /\ attr.step = "run"
    /\ attr.stack = <<>>
    /\ attr.top > Len(attr.declared.order)
    /\ attr' = [attr EXCEPT !.step = "done"]
    /\ UNCHANGED attrRest

InitAttr ==
    /\ disk = [f \in LedgerFiles |-> NoFile]
    /\ cpt = CptIdle
    /\ cptLast = "none"
    /\ OrchestratorIdle
    /\ \E tags \in [PkgIds -> AttrTags], declared \in AttrDeclared :
          attr = [step |-> "run", tags |-> tags, declared |-> declared,
                  dm |-> declared.module, stack |-> <<>>, top |-> 1,
                  entered |-> EmptyMap, from |-> EmptyMap]

NextAttr == AttrNextOwner \/ AttrEntry \/ AttrLoop \/ AttrDone

SpecAttr == InitAttr /\ [][NextAttr]_vars

\* the interpreter runs the next line of a process that has one to run
SpecAttrFair == SpecAttr /\ WF_vars(NextAttr)

----------------------------------------------------------------------------
\* Claims about the attribution (SpecAttr)

installedNames == {nameOf(k) : k \in PkgIds}

\* the packages the Depends field of the installed package p names
dependenciesOf(tags, p) ==
    IF p \in installedNames
    THEN LET k == CHOOSE j \in PkgIds : nameOf(j) = p IN dependsOn(k, tags[k])
    ELSE {}

\* the names reachable from the set S through Depends fields
RECURSIVE reachable(_, _)
reachable(tags, S) ==
    LET T == S \cup UNION {dependenciesOf(tags, p) : p \in S} IN
    IF T = S THEN S ELSE reachable(tags, T)

\* C11: when the attribution is over, exactly the names reachable from the
\* declared packages through Depends fields (alternatives included, version
\* constraints dropped) have a module; a declared package keeps its own, an
\* installed package that was not declared has the module of a package that
\* depends on it (the one it was first reached from), a name that is not
\* installed is "unknown"; and the walk gives what updateDependsModule gives.
DependenciesTakeOwnersModule ==
    attr.step = "done" =>
       LET declared == Range(attr.declared.order)
           reach == reachable(attr.tags, declared)
       IN /\ DOMAIN attr.dm = reach
          /\ \A p \in declared : attr.dm[p] = attr.declared.module[p]
          /\ \A q \in reach \ declared :
                IF q \in installedNames
                THEN /\ q \in DOMAIN attr.from
                     /\ q \in dependenciesOf(attr.tags, attr.from[q])
                     /\ attr.dm[q] = attr.dm[attr.from[q]]
                ELSE attr.dm[q] = "unknown"
          /\ attr.dm = ownersLoop(attr.declared.order, 1,
                                  attr.declared.module,
                                  AttrManifest(attr.tags))

\* a depends on b and c (>= 1), c on d, only a is declared (core): b, c and
\* d are core
DependenciesTakeOwnersModuleWitness ==
    /\ attr.step = "done"
    /\ attr.declared.order = <<PkgA>>
    /\ attr.tags[1] = "chain" /\ attr.tags[2] = "none"
    /\ attr.tags[3] = "one" /\ attr.tags[4] = "none"
    /\ \A p \in {PkgA, PkgB, PkgC, PkgD} :
          p \in DOMAIN attr.dm /\ attr.dm[p] = "core"
    /\ attr.from[PkgD] = PkgC

\* C12: under SpecAttrFair the attribution ends, whatever the Depends fields
\* (cycles and self-dependencies included), and updateDependsModule is
\* called at most once for any package
AttributionTerminates ==
    /\ [](\A p \in DOMAIN attr.entered : attr.entered[p] <= 1)
    /\ <>(attr.step = "done")

\* a depends on b; b on itself, on z or on a: the walk is over, a and b
\* were entered once
AttributionTerminatesWitness ==
    /\ attr.step = "done"
    /\ attr.declared.order = <<PkgA>>
    /\ attr.tags[1] = "one" /\ attr.tags[2] = "alt"
    /\ PkgA \in dependenciesOf(attr.tags, PkgB)
    /\ PkgB \in dependenciesOf(attr.tags, PkgB)
    /\ attr.entered[PkgA] = 1 /\ attr.entered[PkgB] = 1
    /\ attr.dm[PkgB] = "core"

----------------------------------------------------------------------------
\* Claims about package recording on base-extending layers (Spec)

debiansOf(d) == UNION {DOMAIN d.modules[m].debians : m \in DOMAIN d.modules}

\* C13: when a layer that uses a base records its packages, the packages
\* added to its ledger are the installed packages that are not in
\* base_packages: no package of base_packages gets an entry, and the package
\* count, the total and the sum of the module sizes grow by the count and
\* the sizes of the others only
BasePackagesNotRecorded ==
    [][\A L \in Layers, declared \in PackageChoices, fromBase \in BOOLEAN :
         (/\ BuildPackages(L, declared, fromBase)
          /\ cfg.genTSF /\ declared.order # <<>> /\ ls[L].uses_base
          /\ ~ls'[L].rec.crashed)
         => LET old == ls[L].rec.fileSizeDict
                new == ls'[L].rec.fileSizeDict
                base == base_packages(fromBase)
                added == Range(rootfs') \ base
                sizes == [p \in added |-> debianSize(Catalog[p])]
            IN /\ debiansOf(new) \cap base = debiansOf(old) \cap base
               /\ added \subseteq debiansOf(new)
               /\ new.totalNumberOfDebians
                     = old.totalNumberOfDebians + Cardinality(added)
               /\ new.totalFSSize = old.totalFSSize + SumMap(sizes)
               /\ SumMap(moduleSizes(new))
                     = SumMap(moduleSizes(old)) + SumMap(sizes)
               /\ disk'[ls[L].rec.targetSizeFile].data = new]_vars

\* the root, built on a base image that holds x, has installed a, b, c, d
\* and recorded exactly these four
BasePackagesNotRecordedWitness ==
    /\ cfg.rootBase /\ cfg.genTSF
    /\ pc = [step |-> "build_copytargets", layer |-> cfg.n]
    /\ ls[cfg.n].uses_base
    /\ PkgX \in Range(rootfs) /\ PkgA \in Range(rootfs)
    /\ debiansOf(ls[cfg.n].rec.fileSizeDict) = {PkgA, PkgB, PkgC, PkgD}
    /\ ls[cfg.n].rec.fileSizeDict.totalNumberOfDebians = 4

----------------------------------------------------------------------------
\* The phases and the frozen manifests of a chain (SpecManifest): the chain
\* build without ledgers, in every mode: manifest-only or full, config read
\* from a file or from standard input, with or without intermediate outputs,
\* associated filesystems declared by any of the layers.

ManifestConfigs ==
    {c \in [n : Layers, rootBase : BOOLEAN, os : {"linux", "qnx"},
            genTSF : {FALSE}, genInter : BOOLEAN, hasLimits : {FALSE},
            policy : {NoPolicy}, errorOnLimits : {TRUE},
            baseManifest : BOOLEAN, manifestOnly : BOOLEAN,
            stream : BOOLEAN, assoc : SUBSET Layers] :
        /\ c.baseManifest => c.rootBase
        /\ c.assoc \subseteq 1..c.n}

InitManifest ==
    /\ cfg \in ManifestConfigs
    /\ disk = [f \in LedgerFiles |-> NoFile]
    /\ cpt = CptIdle
    /\ cptLast = "none"
    /\ attr = AttrIdle
    /\ ls = [L \in Layers |-> NoLease]
    /\ rootfs = <<>>
    /\ pc = [step |-> "construct", layer |-> 1]
    /\ resets = {}
    /\ checks = [L \in Layers |-> 0]
    /\ lastCheck = NoCheck
    /\ NothingBuilt

SpecManifest == InitManifest /\ [][Next]_vars

\* the events of the primary build of layer L, and all eight of them
primary(L) == SelectSeq(log, LAMBDA e : e.fs = "primary" /\ e.layer = L)

fullRun(L) ==
    [i \in 1..8 |-> Ev(Phases[(i + 1) \div 2], L,
                       IF i % 2 = 1 THEN "begin" ELSE "end")]

isPrefix(s, t) == Len(s) <= Len(t) /\ s = SubSeq(t, 1, Len(s))

\* the history up to the event e (all of it when e is not in it)
before(e) ==
    IF \E i \in 1..Len(log) : log[i] = e
    THEN SubSeq(log, 1, (CHOOSE i \in 1..Len(log) : log[i] = e) - 1)
    ELSE log

succeeded == pc.step \in {"done", "exited"}

\* C14: the events of every layer are a prefix of PRE_BUILD, BUILD,
\* POST_BUILD, OUTPUT, each begun and ended in this order; a process that
\* ended with success took the leaf through all four; and when the BUILD
\* of a layer with a parent begins, the parent has ended PRE_BUILD, BUILD
\* and POST_BUILD, and OUTPUT exactly when intermediate outputs are enabled
PhasesInOrder ==
    /\ \A L \in 1..cfg.n : isPrefix(primary(L), fullRun(L))
    /\ succeeded => primary(1) = fullRun(1)
    /\ \A L \in 1..(cfg.n - 1) :
          Ev("BUILD", L, "begin") \in Range(log) =>
             LET parent == SelectSeq(before(Ev("BUILD", L, "begin")),
                                     LAMBDA e : e.fs = "primary"
                                                /\ e.layer = L + 1)
             IN /\ parent = SubSeq(fullRun(L + 1), 1,
                                   IF cfg.genInter THEN 8 ELSE 6)
                /\ primary(L + 1) = parent

\* C15: an associated filesystem begins no phase before the leaf of the
\* primary chain has ended its OUTPUT
AssociatedAfterLeafOutput ==
    \A i \in 1..Len(log) :
       log[i].fs = "associated" =>
          \E j \in 1..(i - 1) : log[j] = Ev("OUTPUT", 1, "end")

\* C16: a config read from standard input whose Base is a relative path
\* ends the process with a configuration error in the constructor of the
\* leaf, and no directory has been made by then
StreamRelativeBaseRejected ==
    (/\ cfg.stream /\ hasBase(cfg, 1) /\ ~isabs(cfg, 1)
     /\ pc # [step |-> "construct", layer |-> 1])
    => (pc.step = "config_error" /\ tree.dirs = {})

\* C17: the frozen manifest of a layer with a parent config names the
\* parent's frozen manifest as its Base and has the OS of that manifest
BaseNamesParentManifest ==
    \A L \in 1..(cfg.n - 1) :
       manifest[L].writes > 0 =>
          /\ manifest[L].Base = json_manifest_file(L + 1)
          /\ manifest[L].OS = manifest[L + 1].OS

\* C18: the DebianPackages a Linux layer writes to its frozen manifest are
\* the packages installed in the tree at that moment
LiveDebianPackages ==
    [][\A L \in Layers :
         (cfg.os = "linux" /\ manifest'[L].writes > manifest[L].writes)
         => manifest'[L].DebianPackages = Range(rootfs')]_vars

\* C19: when the process has ended with success, every layer of the chain
\* has written its frozen manifest exactly once
ManifestWrittenOnce ==
    succeeded => \A L \in 1..cfg.n : manifest[L].writes = 1

\* the layer whose POST_BUILD was the last to end
postBuildEnds ==
    {i \in 1..Len(log) : log[i].fs = "primary" /\ log[i].phase = "POST_BUILD"
                         /\ log[i].mark = "end"}
lastPostBuilt ==
    log[CHOOSE i \in postBuildEnds : \A j \in postBuildEnds : j <= i].layer

----------------------------------------------------------------------------
(* The merges of LinuxBuildFS.convert_to_manifest: one field of the frozen *)
(* manifest computed from the value read from the old manifest and the     *)
(* value the layer's own config declares.                                  *)

MaxList == 2

\* the variables a pure computation leaves alone
calcRest == <<disk, cpt, cptLast, attr, orchestratorVars>>

\* nothing but the computation under study exists
OnlyCalc ==
    /\ disk = [f \in LedgerFiles |-> NoFile]
    /\ cpt = CptIdle
    /\ cptLast = "none"
    /\ attr = AttrIdle
    /\ OrchestratorQuiet

\* JSON values: a mapping, a list, a string
Dict(f) == [t |-> "dict", d |-> f]
List(s) == [t |-> "list", l |-> s]
Str(x) == [t |-> "str", s |-> x]
MergeError == [t |-> "error", e |-> "deep_dict_update"]

SetLikeFields == {"FilesystemCleanup", "FilesystemInclude",
                  "AssociatedFilesystems"}
KeyedFields == {"Users", "Groups", "Memberships", "Mounts", "PreInstalls",
                "PostInstalls"}

\* the paths a list field may hold, repetitions allowed
MergePaths == {"/a", "/b", "/c"}
PathLists == UNION {[1..n -> MergePaths] : n \in 0..MaxList}

\* the values a key of a mapping field may hold
MergeValues ==
    {List(<<"g1">>), List(<<"g2">>), Str("x"),
     Dict([k \in {"k"} |-> List(<<"g1">>)]),
     Dict([k \in {"k"} |-> List(<<"g2">>)])}
MergeKeys == {"u", "v"}
Mappings == {Dict(f) : f \in UNION {[K -> MergeValues] : K \in SUBSET MergeKeys}}

\* a list that keeps every element of s as often as s has it
keepDuplicates(s) == {s}

\* "list(set(s))": each element once, in an order the interpreter chooses
listOfSet(s) ==
    {q \in [1..Cardinality(Range(s)) -> Range(s)] : Range(q) = Range(s)}

\* the list_action the call passes for a field: the default everywhere
replaceAlways(field) == "replace"

\* list_action="append" is passed for Memberships only
listActionOf(field) == IF field = "Memberships" THEN "append" ELSE "replace"

\* utils.deep_dict_update(d1, d2, list_action); the call for a nested
\* mapping passes no list_action, so it runs with the default
RECURSIVE deep_dict_update(_, _, _)
deep_dict_update(d1, d2, list_action) ==
    IF d2.t # "dict" THEN MergeError
    ELSE IF d1.t # "dict" THEN d2
    ELSE Dict([k \in DOMAIN d1.d \cup DOMAIN d2.d |->
            IF k \notin DOMAIN d2.d THEN d1.d[k]
            ELSE LET v == d2.d[k]
                     had == k \in DOMAIN d1.d
                 IN IF v.t = "dict"
                    THEN deep_dict_update(IF had THEN d1.d[k]
                                          ELSE Dict(<<>>), v, "replace")
                    ELSE IF v.t = "list" /\ had /\ d1.d[k].t = "list"
                    THEN IF list_action = "replace" THEN v
                         ELSE IF list_action = "append"
                         THEN List(d1.d[k].l \o v.l)
                         ELSE MergeError
                    ELSE v])

\* a list field of the manifest: with an old manifest the two lists are
\* joined and passed through a set; without one the declared list is dumped
MergeSetLike ==
    /\ calc.op = "merge"
    /\ calc.in.field \in SetLikeFields
    /\ \E q \in (IF calc.in.old_mf
                 THEN listOfSet(calc.in.old \o calc.in.own)
                 ELSE {calc.in.own}) :
          calc' = [calc EXCEPT !.op = "merged", !.out = q]
    /\ UNCHANGED calcRest

\* a mapping field of the manifest
MergeKeyed ==
    /\ calc.op = "merge"
    /\ calc.in.field \in KeyedFields
    /\ calc' = [calc EXCEPT !.op = "merged",
                   !.out = IF calc.in.old_mf
                           THEN deep_dict_update(calc.in.old, calc.in.own,
                                                 listActionOf(calc.in.field))
                           ELSE calc.in.own]
    /\ UNCHANGED calcRest

InitMerge ==
    /\ OnlyCalc
    /\ \E b \in BOOLEAN :
         \/ \E f \in SetLikeFields, old \in PathLists, own \in PathLists :
               calc = [op |-> "merge", out |-> <<>>,
                       in |-> [field |-> f, old_mf |-> b, old |-> old,
                               own |-> own]]
         \/ \E f \in KeyedFields, old \in Mappings, own \in Mappings :
               calc = [op |-> "merge", out |-> <<>>,
                       in |-> [field |-> f, old_mf |-> b, old |-> old,
                               own |-> own]]

NextMerge == MergeSetLike \/ MergeKeyed

SpecMerge == InitMerge /\ [][NextMerge]_vars

\* a list field merged with an old manifest
mergedSetLike ==
    calc.op = "merged" /\ calc.in.field \in SetLikeFields /\ calc.in.old_mf

\* C21: a set-like field of the frozen manifest holds every element of the
\* parent's value and of the child's declared value, nothing else, and no
\* element twice
SetLikeFieldsAreUnion ==
    mergedSetLike =>
        /\ Range(calc.out) = Range(calc.in.old) \cup Range(calc.in.own)
        /\ \A i, j \in DOMAIN calc.out : calc.out[i] = calc.out[j] => i = j

\* parent {/a,/b} merged with child {/b,/c}: the three paths, each once
SetLikeFieldsAreUnionWitness ==
    /\ mergedSetLike
    /\ calc.in.old = <<"/a", "/b">>
    /\ calc.in.own = <<"/b", "/c">>
    /\ Len(calc.out) = 3

\* a mapping field merged with an old manifest
mergedKeyed ==
    calc.op = "merged" /\ calc.in.field \in KeyedFields /\ calc.in.old_mf

\* the keys that hold a list on both sides
listOnBoth(p, c) ==
    {k \in DOMAIN p \cap DOMAIN c : p[k].t = "list" /\ c[k].t = "list"}

\* C22: in Memberships a key with a list on both sides gets the parent's
\* list followed by the child's; in the other mapping fields the child's
\* list replaces the parent's; a key of one side only keeps its value
MembershipsAppend ==
    mergedKeyed =>
        LET p == calc.in.old.d
            c == calc.in.own.d
            m == calc.out.d
        IN /\ calc.out.t = "dict"
           /\ DOMAIN m = DOMAIN p \cup DOMAIN c
           /\ \A k \in DOMAIN p \ DOMAIN c : m[k] = p[k]
           /\ \A k \in DOMAIN c \ DOMAIN p : m[k] = c[k]
           /\ \A k \in listOnBoth(p, c) :
                 IF calc.in.field = "Memberships"
                 THEN m[k] = List(p[k].l \o c[k].l)
                 ELSE m[k] = c[k]

\* parent {u: [g1]} merged with child {u: [g2]} in Memberships
MembershipsAppendWitness ==
    /\ mergedKeyed
    /\ calc.in.field = "Memberships"
    /\ calc.in.old = Dict([k \in {"u"} |-> List(<<"g1">>)])
    /\ calc.in.own = Dict([k \in {"u"} |-> List(<<"g2">>)])
    /\ calc.out = Dict([k \in {"u"} |-> List(<<"g1", "g2">>)])

----------------------------------------------------------------------------
(* ExtImage: the category of an image and the blocks it needs.  Sizes in   *)
(* bytes go up to sys.maxsize, so a size is written as four groups of six  *)
(* decimal digits, the most significant first: 4398046511103 is            *)
(* <<0, 4, 398046, 511103>>.                                               *)

MaxTree == 60

Bytes(a, b, c, d) == <<a, b, c, d>>

\* a small number of bytes as a size
toBytes(n) == <<0, 0, n \div 1000000, n % 1000000>>

\* x < y and x <= y on sizes
less(x, y) ==
    \E i \in 1..4 : x[i] < y[i] /\ \A j \in 1..(i - 1) : x[j] = y[j]
atMost(x, y) == x = y \/ less(x, y)

\* x + 1 on sizes
inc(x) ==
    IF x[4] < 999999 THEN [x EXCEPT ![4] = @ + 1]
    ELSE IF x[3] < 999999 THEN [x EXCEPT ![4] = 0, ![3] = @ + 1]
    ELSE IF x[2] < 999999 THEN [x EXCEPT ![4] = 0, ![3] = 0, ![2] = @ + 1]
    ELSE [x EXCEPT ![4] = 0, ![3] = 0, ![2] = 0, ![1] = @ + 1]

Minus1 == <<0, 0, 0, -1>>
sys_maxsize == Bytes(9, 223372, 36854, 775807)

ExtRow(c, lo, hi, u, bs, ratio, isize, jb) ==
    [category |-> c, min_size |-> lo, max_size |-> hi, usage_type |-> u,
     block_size |-> bs, byte_inode_ratio |-> ratio, inode_size |-> isize,
     journal_blocks |-> jb]

EXT_DATA ==
    <<ExtRow(1, Bytes(0, 0, 0, 65536), Bytes(0, 0, 2, 97151),
             "floppy", 4096, 8192, 128, 0),
      ExtRow(2, Bytes(0, 0, 2, 97152), Bytes(0, 0, 3, 145727),
             "floppy", 4096, 8192, 128, 1024),
      ExtRow(3, Bytes(0, 0, 3, 145728), Bytes(0, 0, 33, 554431),
             "small", 4096, 4096, 128, 1024),
      ExtRow(4, Bytes(0, 0, 33, 554432), Bytes(0, 0, 268, 435455),
             "small", 4096, 4096, 128, 4096),
      ExtRow(5, Bytes(0, 0, 268, 435456), Bytes(0, 0, 536, 870911),
             "small", 4096, 4096, 128, 8192),
      ExtRow(6, Bytes(0, 0, 536, 870912), Bytes(0, 0, 1073, 741823),
             "default", 4096, 16384, 256, 4096),
      ExtRow(7, Bytes(0, 0, 1073, 741824), Bytes(0, 0, 2147, 483647),
             "default", 4096, 16384, 256, 8192),
      ExtRow(8, Bytes(0, 0, 2147, 483648), Bytes(0, 0, 4294, 967295),
             "default", 4096, 16384, 256, 16384),
      ExtRow(9, Bytes(0, 0, 4294, 967296), Bytes(0, 4, 398046, 511103),
             "default", 4096, 16384, 256, 32768),
      ExtRow(10, Bytes(0, 4, 398046, 511104), Bytes(0, 17, 592186, 44415),
             "big", 4096, 32768, 256, 32768),
      ExtRow(11, Bytes(0, 17, 592186, 44416), Minus1,
             "huge", 4096, 65536, 256, 32768)>>

NoCategory == [category |-> 0]

\* "max_size if max_size > 0 else sys.maxsize"
maxOf(row) ==
    IF less(toBytes(0), row.max_size) THEN row.max_size ELSE sys_maxsize

\* a test that leaves the lower end of the range out
inRangeAboveMin(size, row) == less(row.min_size, size) /\ atMost(size, maxOf(row))

\* "size >= min_size and size <= max_size"
inRange(size, row) == atMost(row.min_size, size) /\ atMost(size, maxOf(row))

\* ExtImage.get_ext_category_data: the first row, in table order, whose
\* range holds the size; None when there is none
RECURSIVE categoryFrom(_, _)
categoryFrom(i, size) ==
    IF i > Len(EXT_DATA) THEN NoCategory
    ELSE IF inRange(size, EXT_DATA[i]) THEN EXT_DATA[i]
    ELSE categoryFrom(i + 1, size)
get_ext_category_data(size) == categoryFrom(1, size)

\* floor(log2(n)) for n >= 1
RECURSIVE log2(_)
log2(n) == IF n < 2 THEN 0 ELSE 1 + log2(n \div 2)
RECURSIVE pow2(_)
pow2(e) == IF e = 0 THEN 1 ELSE 2 * pow2(e - 1)

\* ceil(a / b) of integers
ceilDiv(a, b) == (a + b - 1) \div b

\* a reserve step that wraps at six bits
ceilReserveNarrow(n) == ceilDiv(11 * n, 10) % 64

\* "math.ceil((1 + self.reserve) * total_blocks)" with reserve = 0.1, in
\* double precision.  1 + 0.1 is the double 1.1 + 0.4 * 2^-52.  When 1.1 * n
\* is no integer the rounding of the product is far smaller than its
\* fraction and the ceiling is that of 11n/10.  When n = 10k the exact
\* product is 11k + 4k * 2^-52, between the doubles 11k and 11k + 2^(e-52),
\* e = floor(log2(11k)); it is rounded up to the second, and the ceiling is
\* 11k + 1, when 4k * 2^-52 is more than half their distance: 8k > 2^e (the
\* tie 8k = 2^e goes to 11k, whose last bit is 0).
ceilReserve(n) ==
    IF n % 10 # 0 \/ n = 0 THEN ceilDiv(11 * n, 10)
    ELSE LET k == n \div 10
         IN 11 * k + (IF 8 * k > pow2(log2(11 * k)) THEN 1 ELSE 0)

\* the tree_blocks setter up to total_blocks: reserve, twice the journal,
\* the inodes (inode_byte_ratio = 1 / byte_inode_ratio is a power of two,
\* so the product and the quotient are exact)
required_blocks(cat, tree_blocks) ==
    LET b1 == ceilReserve(tree_blocks)
        b2 == b1 + 2 * cat.journal_blocks
        total_inodes == ceilDiv(b2 * cat.block_size, cat.byte_inode_ratio)
        total_inode_blocks == ceilDiv(total_inodes * cat.inode_size,
                                      cat.block_size)
    IN b2 + total_inode_blocks

\* the attributes an ExtImage object gets from its constructors and setter
ExtImageAttributes ==
    {"fs_type", "final_size", "reserve", "usage_type", "block_size",
     "byte_inode_ratio", "inode_size", "journal_blocks", "journal_size",
     "inode_byte_ratio", "_ExtImage__tree_blocks", "noblks", "image_path",
     "input_stream", "bs"}

\* the branch "final_size < total_size": the arguments of the message are
\* evaluated first, and one of them reads self.total_blocks
capacity_error ==
    IF "total_blocks" \in ExtImageAttributes THEN "CapacityError"
    ELSE "AttributeError"

\* the tree_blocks setter: the object after it, or the error that ends the
\* process
set_tree_blocks(image, value) ==
    LET total_blocks == required_blocks(image.category, value)
        total_size == toBytes(total_blocks * image.category.block_size)
    IN IF less(image.final_size, total_size)
       THEN [image EXCEPT !.tree_blocks = value, !.error = capacity_error]
       ELSE [image EXCEPT !.tree_blocks = value, !.noblks = total_blocks]

\* the declared ImageSize values tried: the ends of every row, their
\* neighbours, the sizes a small tree fills, the largest size
DeclaredSizes ==
    {toBytes(65535), toBytes(69632), toBytes(286720), sys_maxsize}
    \cup {EXT_DATA[i].min_size : i \in DOMAIN EXT_DATA}
    \cup {inc(EXT_DATA[i].min_size) : i \in DOMAIN EXT_DATA}
    \cup {EXT_DATA[i].max_size : i \in 1..(Len(EXT_DATA) - 1)}

\* LinuxBuildFS.__init__: self.image = ExtImage(output, 0, image_final_size)
ExtImageInit ==
    /\ calc.op = "image"
    /\ LET category == get_ext_category_data(calc.in.final_size)
           image == [final_size |-> calc.in.final_size,
                     category |-> category, tree_blocks |-> 0,
                     noblks |-> 0, error |-> "none", created |-> FALSE]
       IN calc' = IF category = NoCategory
                  THEN [calc EXCEPT !.op = "crashed",
                           !.out = [image EXCEPT !.error = "TypeError"]]
                  ELSE LET set == set_tree_blocks(image, 0)
                       IN [calc EXCEPT
                              !.op = IF set.error = "none" THEN "constructed"
                                     ELSE "crashed",
                              !.out = [set EXCEPT !.noblks = 0]]
    /\ UNCHANGED calcRest

\* LinuxBuildFS.process_output, the image part: the blocks of the tree are
\* counted and set, then the image is created
ProcessOutputImage ==
    /\ calc.op = "constructed"
    /\ calc' = IF ~calc.in.create_image
               THEN [calc EXCEPT !.op = "output"]
               ELSE LET set == set_tree_blocks(calc.out, calc.in.tree)
                    IN IF set.error # "none"
                       THEN [calc EXCEPT !.op = "crashed", !.out = set]
                       ELSE [calc EXCEPT !.op = "output",
                                !.out = [set EXCEPT !.created = TRUE]]
    /\ UNCHANGED calcRest

InitImage ==
    /\ OnlyCalc
    /\ \E size \in DeclaredSizes, t \in 0..MaxTree, c \in BOOLEAN :
          calc = [op |-> "image", out |-> <<>>,
                  in |-> [final_size |-> size, tree |-> t,
                          create_image |-> c]]

NextImage == ExtImageInit \/ ProcessOutputImage

SpecImage == InitImage /\ [][NextImage]_vars

----------------------------------------------------------------------------
\* Claims about the image (SpecImage)

\* an ExtImage object exists and a category was found for it
imageSet ==
    /\ calc.op \in {"constructed", "output", "crashed"}
    /\ calc.out.category # NoCategory

\* the footprint of the tree last set exceeds the declared size
footprintExceeds ==
    less(calc.out.final_size,
         toBytes(required_blocks(calc.out.category, calc.out.tree_blocks)
                 * calc.out.category.block_size))

\* C23: when the blocks needed times the block size exceed the declared
\* size the build ends with a capacity error that reports the sizes, and
\* the image is created only when they do not exceed it
CapacityErrorReported ==
    imageSet =>
        /\ footprintExceeds =>
              /\ calc.op = "crashed"
              /\ calc.out.error = "CapacityError"
              /\ ~calc.out.created
        /\ calc.out.created => ~footprintExceeds

\* the rows whose range, ends included, holds the size
rowsHolding(size) ==
    {i \in DOMAIN EXT_DATA :
        /\ atMost(EXT_DATA[i].min_size, size)
        /\ \/ atMost(size, EXT_DATA[i].max_size)
           \/ i = Len(EXT_DATA) /\ atMost(size, sys_maxsize)}

\* C24: the ranges of the category table follow one another without gap
\* or overlap; a declared size from the first minimum on selects the one
\* row that holds it, and a size equal to a row's min_size selects that row
CategoryBoundaries ==
    /\ \A i \in 1..(Len(EXT_DATA) - 1) :
          inc(EXT_DATA[i].max_size) = EXT_DATA[i + 1].min_size
    /\ (/\ calc.op \in {"constructed", "output", "crashed"}
        /\ atMost(EXT_DATA[1].min_size, calc.in.final_size))
       => /\ rowsHolding(calc.in.final_size) = {calc.out.category.category}
          /\ \A i \in DOMAIN EXT_DATA :
                calc.in.final_size = EXT_DATA[i].min_size
                    => calc.out.category = EXT_DATA[i]

\* a declared size of 2097152 bytes selects the second row, not the first
CategoryBoundariesWitness ==
    /\ calc.op \in {"constructed", "output", "crashed"}
    /\ calc.in.final_size = EXT_DATA[2].min_size
    /\ calc.out.category.category = 2
    /\ calc.out.category.journal_blocks = 1024

\* C25: for a category, the blocks needed do not decrease when the tree
\* grows
RequiredBlocksMonotone ==
    (imageSet /\ calc.op # "constructed") =>
        LET needed == required_blocks(calc.out.category, calc.in.tree)
        IN /\ calc.out.created => calc.out.noblks = needed
           /\ \A t \in 0..calc.in.tree :
                 required_blocks(calc.out.category, t) <= needed

\* an image made for a tree of 50 blocks that needs more than one of 49
RequiredBlocksMonotoneWitness ==
    /\ calc.op = "output"
    /\ calc.out.created
    /\ calc.in.tree = 50
    /\ calc.out.noblks > required_blocks(calc.out.category, 49)

\* the blocks needed by the stated formula, every quotient rounded up
statedBlocks(cat, tree_blocks) ==
    LET b1 == ceilDiv(11 * tree_blocks, 10)
        b2 == b1 + 2 * cat.journal_blocks
        inodes == ceilDiv(b2 * cat.block_size, cat.byte_inode_ratio)
    IN b2 + ceilDiv(inodes * cat.inode_size, cat.block_size)

\* C26: the blocks needed are b2 + ceil(inodes * inode_size / block_size)
\* with b1 = ceil((1 + reserve) * tree_blocks), b2 = b1 + 2 * journal_blocks
\* and inodes = ceil(b2 * block_size / byte_inode_ratio)
RequiredBlocksFormula ==
    (calc.op = "output" /\ calc.out.created) =>
        calc.out.noblks = statedBlocks(calc.out.category, calc.out.tree_blocks)

----------------------------------------------------------------------------
(* The workspaces and the exit handlers.  Every BuildFS object makes its   *)
(* work_dir with tempfile.mkdtemp when its constructor begins and          *)
(* registers its cleanup with atexit when BuildFS.__init__ ends, after the *)
(* parent object is constructed.  sys.exit and the end of __main__ run the *)
(* registered handlers, the last registered first.  Layer 1 is the leaf;   *)
(* 0 (its a_fs_work_dir_index) names the associated build of the leaf,     *)
(* whose work_folder is a subdirectory of the leaf's work_dir.             *)

AssociatedBuild == 0

\* the runs studied: the chain, its OS, KEEP_BUILD_FS_WORKDIR=1, an
\* ancestor whose CONFIG.json cannot be parsed (0: none; the leaf's config
\* is parsed by __main__ before any object exists), a phase that fails, an
\* associated filesystem declared by the leaf
ExitRuns ==
    {r \in [n : Layers, os : {"linux", "qnx"}, keep : BOOLEAN,
            badConfig : {0} \cup (Layers \ {1}), buildFails : BOOLEAN,
            assoc : BOOLEAN] :
        /\ r.badConfig <= r.n
        /\ r.assoc => r.os = "linux"}

ExitAt(op, L) == calc.op = op /\ calc.out.layer = L

\* BuildFS.__init__ of layer L up to the construction of its parent
ExitConstruct(L) ==
    /\ ExitAt("construct", L)
    /\ LET made == [calc.out EXCEPT !.workspace = @ \cup {L},
                                    !.created = @ \cup {L}]
       IN calc' = IF calc.in.badConfig = L
                  THEN [calc EXCEPT !.op = "exiting", !.out = made]
                  ELSE IF L < calc.in.n
                  THEN [calc EXCEPT !.out = [made EXCEPT !.layer = L + 1]]
                  ELSE [calc EXCEPT !.op = "register", !.out = made]
    /\ UNCHANGED calcRest

\* the end of BuildFS.__init__ of layer L, and the rest of the subclass
\* constructor: the associated builds are constructed, each registering
\* its own cleanup
ExitRegister(L) ==
    /\ ExitAt("register", L)
    /\ LET a == calc.in.assoc /\ L = 1
           done == [calc.out EXCEPT
                      !.registered = IF a THEN @ \o <<L, AssociatedBuild>>
                                     ELSE Append(@, L),
                      !.workspace = IF a THEN @ \cup {AssociatedBuild}
                                    ELSE @,
                      !.created = IF a THEN @ \cup {AssociatedBuild} ELSE @]
       IN calc' = IF L > 1
                  THEN [calc EXCEPT !.out = [done EXCEPT !.layer = L - 1]]
                  ELSE [calc EXCEPT !.op = "build", !.out = done]
    /\ UNCHANGED calcRest

\* __main__ runs the four phases: they end, or one of them calls
\* raise_error_and_exit
ExitBuild ==
    /\ calc.op = "build"
    /\ calc' = [calc EXCEPT !.op = "exiting",
                  !.out.success = ~calc.in.buildFails]
    /\ UNCHANGED calcRest

\* BuildFS.cleanup (and LinuxBuildFS.cleanup above it) keeps the workspace
\* when KEEP_BUILD_FS_WORKDIR is "1"; QNXBuildFS.cleanup does not look
keepsWorkspace(os, keep) == os = "linux" /\ keep

\* shutil.rmtree(work_dir): the directory and what lies in it
rmtree(L, workspace) ==
    workspace \ (IF L = 1 THEN {1, AssociatedBuild} ELSE {L})

\* the interpreter exits: the handler registered last and not yet run
ExitCleanup ==
    /\ calc.op = "exiting"
    /\ LET k == Len(calc.out.registered)
       IN IF k = 0
          THEN calc' = [calc EXCEPT !.op = "exited"]
          ELSE LET L == calc.out.registered[k]
               IN calc' = [calc EXCEPT
                    !.out.registered = SubSeq(@, 1, k - 1),
                    !.out.workspace =
                        IF keepsWorkspace(calc.in.os, calc.in.keep) THEN @
                        ELSE rmtree(L, @)]
    /\ UNCHANGED calcRest

InitExit ==
    /\ OnlyCalc
    /\ \E r \in ExitRuns :
          calc = [op |-> "construct", in |-> r,
                  out |-> [layer |-> 1, workspace |-> {}, created |-> {},
                           registered |-> <<>>, success |-> FALSE]]

NextExit ==
    \/ \E L \in Layers : ExitConstruct(L)
    \/ \E L \in Layers : ExitRegister(L)
    \/ ExitBuild
    \/ ExitCleanup

SpecExit == InitExit /\ [][NextExit]_vars

\* C27: when the process has exited, every workspace that was created is
\* deleted, whether the run succeeded or failed, unless
\* KEEP_BUILD_FS_WORKDIR=1, and then none is deleted
WorkspacesCleanedAtExit ==
    calc.op = "exited" =>
        IF calc.in.keep THEN calc.out.workspace = calc.out.created
        ELSE calc.out.workspace = {}

----------------------------------------------------------------------------
(* Builds with ledgers generated, in an output folder that is empty or     *)
(* holds the ledgers of a former build.  The former build recorded one     *)
(* file under a module that no step of these builds records.               *)

StaleModule == "stale"

StaleLedger ==
    addFile(readTargetSizeManifest(fs_size_file(1), NoFile),
            <<"old">>, StaleModule, 1).fileSizeDict

LeftoverConfigs ==
    {c @@ PlainRun :
       c \in {c \in [n : Layers, rootBase : BOOLEAN, os : {"linux", "qnx"},
                     genTSF : {TRUE}, genInter : BOOLEAN,
                     hasLimits : BOOLEAN,
                     policy : {GenerousPolicy, NoPolicy},
                     errorOnLimits : {FALSE}, baseManifest : {FALSE}] :
                 c.hasLimits <=> c.policy # NoPolicy}}

InitLeftover ==
    /\ cfg \in LeftoverConfigs
    /\ disk \in {[f \in LedgerFiles |-> NoFile],
                 [f \in LedgerFiles |->
                    [exists |-> TRUE, data |-> StaleLedger]]}
    /\ cpt = CptIdle
    /\ cptLast = "none"
    /\ attr = AttrIdle
    /\ ls = [L \in Layers |-> NoLease]
    /\ rootfs = <<>>
    /\ pc = [step |-> "construct", layer |-> 1]
    /\ resets = {}
    /\ checks = [L \in Layers |-> 0]
    /\ lastCheck = NoCheck
    /\ NothingBuilt

SpecLeftover == InitLeftover /\ [][Next]_vars

\* the ledger holds the module of the former build
hasStale(d) == StaleModule \in DOMAIN d.modules

\* C28: the ledger the leaf is checked against, and the one its file holds
\* when the build is done, do not depend on the ledgers a former build left:
\* nothing of the former build is in them
LeafLedgerIgnoresLeftovers ==
    /\ (lastCheck.ran /\ lastCheck.layer = 1) => ~hasStale(lastCheck.d)
    /\ pc.step = "done" => ~hasStale(disk[ls[1].target_size_file].data)

----------------------------------------------------------------------------
(* A module entry and the package recorded in it next.  The entry is made  *)
(* by the writer that first names the module: FileSizeRecords.addFile of   *)
(* copytarget.py or FSLeasedSpace.addDebianPackage.                        *)

RecordModules == {"core", "modx", "unknown"}
RecordPackages == {PkgA, PkgB, PkgC, PkgD}

\* the ledger gets its first module entry
RecordCreate ==
    /\ calc.op = "ledger"
    /\ LET fresh == readTargetSizeManifest(fs_size_file(1), NoFile)
       IN calc' = [calc EXCEPT
            !.op = "created",
            !.out = IF calc.in.creator = "addFile"
                    THEN addFile(fresh, <<"fa">>, calc.in.module,
                                 calc.in.size)
                    ELSE addDebianPackage(fresh, PkgX, calc.in.module,
                                          Catalog[PkgX])]
    /\ UNCHANGED calcRest

\* addDebianPackage(debian, module, size, fileList) on that ledger
RecordPackage ==
    /\ calc.op = "created"
    /\ LET r == addDebianPackage(calc.out, calc.in.package, calc.in.module,
                                 Catalog[calc.in.package])
       IN calc' = [calc EXCEPT
                     !.op = IF r.crashed THEN "crashed" ELSE "recorded",
                     !.out = r]
    /\ UNCHANGED calcRest

InitRecord ==
    /\ OnlyCalc
    /\ \E m \in RecordModules, w \in {"addFile", "addDebianPackage"},
          s \in FileSizes, p \in RecordPackages :
          calc = [op |-> "ledger", out |-> NoRecords,
                  in |-> [module |-> m, creator |-> w, size |-> s,
                          package |-> p]]

NextRecord == RecordCreate \/ RecordPackage

SpecRecord == InitRecord /\ [][NextRecord]_vars

\* C29: a package attributed to an existing module is recorded whichever
\* writer made the module entry: the call completes and the module holds
\* the package with its size
PackageRecordedInAnyModule ==
    calc.op \in {"recorded", "crashed"} =>
        LET m == calc.out.fileSizeDict.modules[calc.in.module]
        IN /\ calc.op = "recorded"
           /\ m.hasDebians
           /\ calc.in.package \in DOMAIN m.debians
           /\ m.debians[calc.in.package] = debianSize(Catalog[calc.in.package])

----------------------------------------------------------------------------
\* Claims about removeFile (SpecCopyTarget)

\* C30: a removeFile whose destination is not recorded, or is recorded
\* under another module than the one passed, changes neither the ledger nor
\* the file record index and raises nothing
RemoveFileFrame ==
    [][cptLast' \in {"remove_other", "remove_absent"}
         => /\ cpt'.rec = cpt.rec
            /\ cpt'.running
            /\ disk' = disk]_vars

\* a remove directive tagged with another module than the one that holds
\* the file has been handled, and the file is still recorded
RemoveFileFrameWitness ==
    /\ cptLast = "remove_other"
    /\ cpt.running
    /\ cpt.rec.fileSizeDict.totalNumberOfFiles > 0
    /\ cpt.rec.fileRecordsDict # EmptyMap

====
